---- MODULE Spec2Model ----
(***************************************************************************)
(* A model of the sole-resolver resolution pipeline: the SKU classifier,   *)
(* query validation, the in-memory cache, the KicksDB and Sneaks adapters, *)
(* the normalizer, the confidence scorer, the resolve orchestrator and the *)
(* HTTP routes that lead to it.                                            *)
(*                                                                         *)
(* JavaScript strings are sequences of one-character strings.  null and    *)
(* undefined are the one-element sequences NULL and UNDEF, whose element   *)
(* is no character, so they differ from every string.  JavaScript numbers  *)
(* (IEEE-754 doubles) are modelled exactly, as fixed-point naturals held   *)
(* in 15-bit limbs, with round-to-nearest-even after every operation.      *)
(***************************************************************************)
EXTENDS Integers, Sequences, FiniteSets, TLC

(***************************************************************************)
(* Characters and strings                                                  *)
(***************************************************************************)
UpperSeq ==
  <<"A","B","C","D","E","F","G","H","I","J","K","L","M",
    "N","O","P","Q","R","S","T","U","V","W","X","Y","Z">>

LowerSeq ==
  <<"a","b","c","d","e","f","g","h","i","j","k","l","m",
    "n","o","p","q","r","s","t","u","v","w","x","y","z">>

Upper == {UpperSeq[i] : i \in 1..26}

Lower == {LowerSeq[i] : i \in 1..26}

Digit == {"0","1","2","3","4","5","6","7","8","9"}

\* \s of a JavaScript regular expression, and what trim() strips
White == {" ", "\t", "\n", "\r"}

\* \w of a JavaScript regular expression
WordCh == Upper \cup Lower \cup Digit \cup {"_"}

\* the characters strings are built from in this model
Chars == WordCh \cup White \cup {"-", "'", "\"", "(", ")", "!", ".", "/", "#", ":"}

NULL == <<"null">>

UNDEF == <<"undefined">>

\* a value that is neither a string nor null: a number or object where a
\* string was expected (a malformed provider payload)
NOTSTR == <<"object">>

IsString(v) == \A i \in 1..Len(v) : v[i] \in Chars

\* JavaScript truthiness of a string-or-null value
Truthy(v) == v # NULL /\ v # UNDEF /\ v # <<>>

\* a || b
OrElse(a, b) == IF Truthy(a) THEN a ELSE b

\* the match a when there is one, b otherwise
OrNull(a, b) == IF a # NULL THEN a ELSE b

UpperOf == [c \in Chars |->
  IF c \in Lower THEN UpperSeq[CHOOSE i \in 1..26 : LowerSeq[i] = c] ELSE c]

LowerOf == [c \in Chars |->
  IF c \in Upper THEN LowerSeq[CHOOSE i \in 1..26 : UpperSeq[i] = c] ELSE c]

\* String.prototype.toUpperCase
ToUpperCase(s) == SubSeq([i \in 1..Len(s) |-> UpperOf[s[i]]], 1, Len(s))

RECURSIVE TrimStart(_)
TrimStart(s) ==
  IF s # <<>> /\ Head(s) \in White THEN TrimStart(Tail(s)) ELSE s

RECURSIVE TrimEnd(_)
TrimEnd(s) ==
  IF s # <<>> /\ s[Len(s)] \in White
    THEN TrimEnd(SubSeq(s, 1, Len(s) - 1)) ELSE s

\* String.prototype.trim
Trim(s) == TrimEnd(TrimStart(s))

\* s.replace(/\s+/g, '')
StripWhite(s) == SelectSeq(s, LAMBDA c : c \notin White)

RECURSIVE IndexOfFrom(_, _, _)
IndexOfFrom(s, t, i) ==
  IF i + Len(t) - 1 > Len(s) THEN 0
  ELSE IF SubSeq(s, i, i + Len(t) - 1) = t THEN i
  ELSE IndexOfFrom(s, t, i + 1)

\* String.prototype.includes
Includes(s, t) == IndexOfFrom(s, t, 1) # 0

\* the string written as the literal t
Str(t) == SubSeq([i \in 1..Len(t) |-> SubSeq(t, i, i)], 1, Len(t))

(***************************************************************************)
(* JavaScript regular expressions.  A pattern is a tree of nodes; Ends     *)
(* gives the positions at which a match starting at position i may end,    *)
(* in the order the backtracking matcher tries them, so its head is the    *)
(* match JavaScript reports.                                               *)
(***************************************************************************)
\* one character of a set
Cls(cs) == [k |-> "set", cs |-> cs]

\* one character of a set, under the i flag
ClsI(cs) == [k |-> "set", cs |-> {UpperOf[c] : c \in cs} \cup {LowerOf[c] : c \in cs}]

\* [^...]
NotCls(cs) == [k |-> "set", cs |-> Chars \ cs]

Cat(xs) == [k |-> "seq", xs |-> xs]

Alt(xs) == [k |-> "alt", xs |-> xs]

\* x{lo,hi}, greedy; hi = -1 for no upper limit
Rep(x, lo, hi) == [k |-> "rep", x |-> x, lo |-> lo, hi |-> hi, lazy |-> FALSE]

\* x{lo,hi}?, lazy
RepLazy(x, lo, hi) == [k |-> "rep", x |-> x, lo |-> lo, hi |-> hi, lazy |-> TRUE]

Opt(x) == Rep(x, 0, 1)

\* ^
Bol == [k |-> "bol"]

\* $
Eol == [k |-> "eol"]

\* \b
WordB == [k |-> "wb"]

\* a literal string
Lit(t) == [k |-> "lit", t |-> t, i |-> FALSE]

\* a literal string, under the i flag
LitI(t) == [k |-> "lit", t |-> t, i |-> TRUE]

\* whether the literal of the node is what s holds at position i
LitAt(re, s, i) ==
  /\ i + Len(re.t) - 1 <= Len(s)
  /\ \A n \in 1..Len(re.t) :
        IF re.i THEN UpperOf[s[i + n - 1]] = UpperOf[re.t[n]]
        ELSE s[i + n - 1] = re.t[n]

IsWordAt(s, i) == i >= 1 /\ i <= Len(s) /\ s[i] \in WordCh

RECURSIVE Ends(_, _, _), EndsSeq(_, _, _, _), EndsSeqEach(_, _, _, _, _),
          EndsAlt(_, _, _, _), EndsRep(_, _, _, _), EndsRepEach(_, _, _, _, _)

Ends(re, s, i) ==
  CASE re.k = "set" -> IF i <= Len(s) /\ s[i] \in re.cs THEN <<i + 1>> ELSE <<>>
    [] re.k = "lit" -> IF LitAt(re, s, i) THEN <<i + Len(re.t)>> ELSE <<>>
    [] re.k = "seq" -> EndsSeq(re.xs, 1, s, i)
    [] re.k = "alt" -> EndsAlt(re.xs, 1, s, i)
    [] re.k = "rep" -> EndsRep(re, s, i, 0)
    [] re.k = "bol" -> IF i = 1 THEN <<i>> ELSE <<>>
    [] re.k = "eol" -> IF i = Len(s) + 1 THEN <<i>> ELSE <<>>
    [] re.k = "wb"  -> IF IsWordAt(s, i - 1) # IsWordAt(s, i) THEN <<i>> ELSE <<>>

EndsSeq(xs, n, s, i) ==
  IF n > Len(xs) THEN <<i>>
  ELSE EndsSeqEach(Ends(xs[n], s, i), 1, xs, n, s)

EndsSeqEach(js, m, xs, n, s) ==
  IF m > Len(js) THEN <<>>
  ELSE EndsSeq(xs, n + 1, s, js[m]) \o EndsSeqEach(js, m + 1, xs, n, s)

EndsAlt(xs, n, s, i) ==
  IF n > Len(xs) THEN <<>>
  ELSE Ends(xs[n], s, i) \o EndsAlt(xs, n + 1, s, i)

\* the number of characters of cs that s holds from position i on, hi at most
RunLen(cs, s, i, hi) ==
  LET most == IF hi = -1 \/ hi > Len(s) + 1 - i THEN Len(s) + 1 - i ELSE hi
      runs == {k \in 0..most : \A j \in i..(i + k - 1) : s[j] \in cs}
  IN  CHOOSE k \in runs : \A l \in runs : l <= k

\* a repeated character set matches every length from lo to the run's, the
\* longest first when greedy and the shortest first when lazy
EndsRepSet(re, s, i) ==
  LET k == RunLen(re.x.cs, s, i, re.hi)
  IN  IF k < re.lo THEN <<>>
      ELSE IF re.lazy THEN [n \in 1..(k - re.lo + 1) |-> i + re.lo + n - 1]
      ELSE [n \in 1..(k - re.lo + 1) |-> i + k - n + 1]

EndsRep(re, s, i, cnt) ==
  IF cnt = 0 /\ re.x.k = "set" THEN EndsRepSet(re, s, i)
  ELSE
    LET more == IF re.hi = -1 \/ cnt < re.hi
                  THEN EndsRepEach(Ends(re.x, s, i), 1, re, s, cnt)
                  ELSE <<>>
        stop == IF cnt >= re.lo THEN <<i>> ELSE <<>>
    IN  IF re.lazy THEN stop \o more ELSE more \o stop

EndsRepEach(js, m, re, s, cnt) ==
  IF m > Len(js) THEN <<>>
  ELSE EndsRep(re, s, js[m], cnt + 1) \o EndsRepEach(js, m + 1, re, s, cnt)

\* RegExp.prototype.test, for a pattern without the g flag
Test(re, s) == \E i \in 1..(Len(s) + 1) : Ends(re, s, i) # <<>>


\* the capture of pre(grp)post at position i: <<start, end>> of the group for
\* the first way the matcher finds, or <<>>
RECURSIVE CapEach2(_, _, _, _, _)
CapEach2(j2s, m, j1, post, s) ==
  IF m > Len(j2s) THEN <<>>
  ELSE IF Ends(post, s, j2s[m]) # <<>> THEN <<j1, j2s[m]>>
  ELSE CapEach2(j2s, m + 1, j1, post, s)

\* the capture c when there is one, rest otherwise
OrCapture(c, rest) == IF c # <<>> THEN c ELSE rest

RECURSIVE CapEach1(_, _, _, _, _)
CapEach1(j1s, m, grp, post, s) ==
  IF m > Len(j1s) THEN <<>>
  ELSE OrCapture(CapEach2(Ends(grp, s, j1s[m]), 1, j1s[m], post, s),
                 CapEach1(j1s, m + 1, grp, post, s))

\* the capture of a match that starts at position i, or <<>>
MatchAt(pre, grp, post, s, i) == CapEach1(Ends(pre, s, i), 1, grp, post, s)

\* s.match(/pre(grp)post/)[1], or NULL when there is no match: the matcher
\* reports the match at the leftmost position that has one
FirstCapture(s, caps) ==
  LET starts == {i \in DOMAIN caps : caps[i] # <<>>}
  IN  IF starts = {} THEN NULL
      ELSE LET c == caps[CHOOSE j \in starts : \A l \in starts : j <= l]
           IN  SubSeq(s, c[1], c[2] - 1)

Match1(pre, grp, post, s) ==
  FirstCapture(s, [i \in 1..(Len(s) + 1) |-> MatchAt(pre, grp, post, s, i)])

(***************************************************************************)
(* Natural numbers beyond 32 bits: little-endian sequences of 15-bit       *)
(* limbs, most significant limb non-zero, zero the empty sequence.         *)
(***************************************************************************)
LimbBase == 2 ^ 15

Limb(a, i) == IF i <= Len(a) THEN a[i] ELSE 0

RECURSIVE BNorm(_)
BNorm(a) ==
  IF a # <<>> /\ a[Len(a)] = 0 THEN BNorm(SubSeq(a, 1, Len(a) - 1)) ELSE a

RECURSIVE BFromInt(_)
BFromInt(n) ==
  IF n = 0 THEN <<>> ELSE <<n % LimbBase>> \o BFromInt(n \div LimbBase)

RECURSIVE BToInt(_)
BToInt(a) == IF a = <<>> THEN 0 ELSE Head(a) + LimbBase * BToInt(Tail(a))

RECURSIVE BAddC(_, _, _, _)
BAddC(a, b, i, c) ==
  IF i > Len(a) /\ i > Len(b)
    THEN (IF c = 0 THEN <<>> ELSE <<c>>)
    ELSE LET s == Limb(a, i) + Limb(b, i) + c
         IN  <<s % LimbBase>> \o BAddC(a, b, i + 1, s \div LimbBase)

BAdd(a, b) == BAddC(a, b, 1, 0)

RECURSIVE BSubC(_, _, _, _)
BSubC(a, b, i, c) ==
  IF i > Len(a) THEN <<>>
  ELSE LET d == Limb(a, i) - Limb(b, i) - c
       IN  IF d < 0 THEN <<d + LimbBase>> \o BSubC(a, b, i + 1, 1)
                    ELSE <<d>> \o BSubC(a, b, i + 1, 0)

\* a - b, for a >= b
BSub(a, b) == BNorm(BSubC(a, b, 1, 0))

RECURSIVE BCmpFrom(_, _, _)
BCmpFrom(a, b, i) ==
  IF i = 0 THEN 0
  ELSE IF a[i] < b[i] THEN -1
  ELSE IF a[i] > b[i] THEN 1
  ELSE BCmpFrom(a, b, i - 1)

\* -1, 0 or 1 as a < b, a = b or a > b
BCmp(a, b) ==
  IF Len(a) < Len(b) THEN -1
  ELSE IF Len(a) > Len(b) THEN 1
  ELSE BCmpFrom(a, b, Len(a))

RECURSIVE BMulSmallC(_, _, _, _)
BMulSmallC(a, x, i, c) ==
  IF i > Len(a) THEN (IF c = 0 THEN <<>> ELSE <<c>>)
  ELSE LET p == a[i] * x + c
       IN  <<p % LimbBase>> \o BMulSmallC(a, x, i + 1, p \div LimbBase)

\* a * x for a single limb x
BMulSmall(a, x) == IF x = 0 THEN <<>> ELSE BMulSmallC(a, x, 1, 0)

ShlLimbs(a, n) == IF a = <<>> THEN <<>> ELSE [i \in 1..n |-> 0] \o a

DropLimbs(a, n) == IF Len(a) <= n THEN <<>> ELSE SubSeq(a, n + 1, Len(a))

RECURSIVE BMulFrom(_, _, _)
BMulFrom(a, b, j) ==
  IF j > Len(b) THEN <<>>
  ELSE BAdd(ShlLimbs(BMulSmall(a, b[j]), j - 1), BMulFrom(a, b, j + 1))

BMul(a, b) == BMulFrom(a, b, 1)

RECURSIVE BDivSmallFrom(_, _, _, _)
BDivSmallFrom(a, d, i, r) ==
  IF i = 0 THEN [q |-> <<>>, r |-> r]
  ELSE LET cur  == r * LimbBase + a[i]
           rest == BDivSmallFrom(a, d, i - 1, cur % d)
       IN  [q |-> rest.q \o <<cur \div d>>, r |-> rest.r]

\* quotient and remainder of a by d, for 0 < d < 2^15
BDivSmall(a, d) ==
  LET x == BDivSmallFrom(a, d, Len(a), 0) IN [q |-> BNorm(x.q), r |-> x.r]

RECURSIVE IntBitLen(_)
IntBitLen(n) == IF n = 0 THEN 0 ELSE 1 + IntBitLen(n \div 2)

BitLen(a) ==
  IF a = <<>> THEN 0 ELSE 15 * (Len(a) - 1) + IntBitLen(a[Len(a)])

\* bit j of a, bit 0 the least significant
BitAt(a, j) == (Limb(a, (j \div 15) + 1) \div (2 ^ (j % 15))) % 2

\* whether some bit of a below bit j is set
LowNonZero(a, j) ==
  \/ \E i \in 1..(j \div 15) : Limb(a, i) # 0
  \/ Limb(a, (j \div 15) + 1) % (2 ^ (j % 15)) # 0

\* a with the bits below bit j cleared
ClearLow(a, j) ==
  SubSeq([i \in 1..Len(a) |->
            IF i <= j \div 15 THEN 0
            ELSE IF i = (j \div 15) + 1
              THEN a[i] - (a[i] % (2 ^ (j % 15)))
            ELSE a[i]], 1, Len(a))

Pow2Big(j) == [i \in 1..(j \div 15) |-> 0] \o <<2 ^ (j % 15)>>

(***************************************************************************)
(* IEEE-754 doubles.  A non-negative double x is held as the natural       *)
(* x * 2^75; every double the scorer computes (at least 2^-22, below 128)  *)
(* is such a natural.  Round53 rounds to 53 significant bits, ties to      *)
(* even, as every double operation does.                                   *)
(***************************************************************************)
FracLimbs == 75 \div 15

Round53(n, sticky) ==
  LET k == BitLen(n) - 53
  IN  IF k <= 0 THEN n
      ELSE LET roundBit == BitAt(n, k - 1) = 1
               rest     == sticky \/ LowNonZero(n, k - 1)
               odd      == BitAt(n, k) = 1
           IN  IF roundBit /\ (rest \/ odd)
                 THEN BAdd(ClearLow(n, k), Pow2Big(k))
                 ELSE ClearLow(n, k)

\* x + y
DAdd(x, y) ==
  IF x = <<>> THEN y
  ELSE IF y = <<>> THEN x
  ELSE Round53(BAdd(x, y), FALSE)

\* x * y
DMul(x, y) ==
  IF x = <<>> \/ y = <<>> THEN <<>>
  ELSE DropLimbs(Round53(BMul(x, y), FALSE), FracLimbs)

\* the double written as the decimal literal n/d (0.3 is Dec(3, 10)); also
\* the double quotient n / d of two small integers
Dec(n, d) ==
  LET x == BDivSmall(ShlLimbs(BFromInt(n), 2 * FracLimbs), d)
  IN  DropLimbs(Round53(x.q, x.r # 0), FracLimbs)

DGe(x, y) == BCmp(x, y) >= 0

\* a clamp that lets its argument through
DMinUnclamped(x, y) == y

\* Math.min(x, y)
DMin(x, y) == IF BCmp(x, y) <= 0 THEN x ELSE y

\* Math.max(x, y)
DMax(x, y) == IF BCmp(x, y) >= 0 THEN x ELSE y

\* Math.round(x): the nearest integer, a tie going up
MathRound(x) ==
  BToInt(DropLimbs(BAdd(x, Pow2Big(15 * FracLimbs - 1)), FracLimbs))


(***************************************************************************)
(* Confidence scorer (utils/confidence.js)                                 *)
(***************************************************************************)
DZero == <<>>

DOne == Dec(1, 1)

\* sourceScores
sourceScores ==
  [cache |-> Dec(15, 100), kicksdb |-> Dec(15, 100), sneaks |-> Dec(12, 100),
   google |-> Dec(8, 100), unknown |-> Dec(2, 100)]

\* sourceScores[source] || sourceScores.unknown
ScoreIn(scores, source) ==
  IF source \in DOMAIN scores THEN scores[source] ELSE scores["unknown"]

SourceScore(source) == ScoreIn(sourceScores, source)

\* if (cond) score += weight
AddIf(cond, score, weight) == IF cond THEN DAdd(score, weight) ELSE score

calculateConfidence(in) ==
  LET s1 == DAdd(DZero, DMul(in.patternConfidence, Dec(3, 10)))
      s2 == AddIf(in.exactSkuMatch, s1, Dec(25, 100))
      s3 == DAdd(s2, SourceScore(in.source))
      s4 == AddIf(in.hasBrand, s3, Dec(10, 100))
      s5 == AddIf(in.hasModel, s4, Dec(10, 100))
      s6 == AddIf(in.hasColorway, s5, Dec(10, 100))
      s7 == AddIf(in.fromCache, s6, Dec(5, 100))
  IN  DMin(DOne, DMax(DZero, s7))

\* Math.round(confidence * 100) / 100, held as the integer number of
\* hundredths n: the response carries the double nearest to n / 100
RoundedHundredths(confidence) == MathRound(DMul(confidence, Dec(100, 1)))


(***************************************************************************)
(* SKU classifier (classifiers/sku-classifier.js)                          *)
(***************************************************************************)
Letters(lo, hi) == Rep(ClsI(Upper), lo, hi)

Digits(lo, hi) == Rep(Cls(Digit), lo, hi)

Hyphen == Cls({"-"})

\* (CT|CZ|...) under the i flag
PrefixI(ps) == Alt([n \in 1..Len(ps) |-> LitI(ps[n])])

JordanPrefixes ==
  << <<"C","T">>, <<"C","Z">>, <<"D","M">>, <<"D","D">>, <<"D","C">>,
     <<"D","Q">>, <<"D","R">>, <<"D","O">>, <<"D","N">>, <<"F","Q">>,
     <<"F","D">> >>

YeezyPrefixes ==
  << <<"G","W">>, <<"G","X">>, <<"G","Y">>, <<"G","Z">>, <<"H","P">>,
     <<"H","Q">>, <<"H","R">>, <<"H","S">>, <<"H","T">>, <<"I","D">>,
     <<"I","E">>, <<"I","F">>, <<"I","G">>, <<"I","H">> >>

BRAND_PATTERNS ==
  << [brand |-> "Nike",
      patterns |->
        << Cat(<<Bol, Letters(2, 2), Digits(4, 4), Hyphen, Digits(3, 3), Eol>>),
           Cat(<<Bol, Digits(6, 6), Hyphen, Digits(3, 3), Eol>>),
           Cat(<<Bol, Letters(3, 3), Digits(3, 3), Hyphen, Digits(3, 3), Eol>>) >>,
      confidence |-> Dec(95, 100)],
     [brand |-> "Jordan",
      patterns |->
        << Cat(<<Bol, PrefixI(JordanPrefixes), Digits(4, 4), Hyphen,
                 Digits(3, 3), Eol>>) >>,
      confidence |-> Dec(90, 100)],
     [brand |-> "Adidas",
      patterns |->
        << Cat(<<Bol, Letters(2, 2), Digits(4, 4), Eol>>),
           Cat(<<Bol, Letters(1, 1), Digits(5, 5), Eol>>),
           Cat(<<Bol, PrefixI(YeezyPrefixes), Digits(4, 4), Eol>>) >>,
      confidence |-> Dec(90, 100)],
     [brand |-> "New Balance",
      patterns |->
        << Cat(<<Bol, LitI(<<"M">>), Digits(3, 4), Letters(2, 3), Digits(0, 1), Eol>>),
           Cat(<<Bol, LitI(<<"W">>), Digits(3, 4), Letters(2, 3), Digits(0, 1), Eol>>),
           Cat(<<Bol, LitI(<<"U">>), Digits(3, 4), Letters(2, 3), Digits(0, 1), Eol>>),
           Cat(<<Bol, LitI(<<"M","L">>), Digits(3, 4), Letters(2, 3), Eol>>) >>,
      confidence |-> Dec(92, 100)],
     [brand |-> "Puma",
      patterns |->
        << Cat(<<Bol, Digits(6, 6), Hyphen, Digits(2, 2), Eol>>),
           Cat(<<Bol, Digits(3, 3), Hyphen, Digits(5, 5), Eol>>) >>,
      confidence |-> Dec(88, 100)],
     [brand |-> "Converse",
      patterns |->
        << Cat(<<Bol, Digits(6, 6), LitI(<<"C">>), Eol>>),
           Cat(<<Bol, Letters(1, 1), Digits(4, 5), LitI(<<"C">>), Eol>>) >>,
      confidence |-> Dec(90, 100)],
     [brand |-> "Vans",
      patterns |->
        << Cat(<<Bol, LitI(<<"V","N","0">>), Letters(1, 1),
                 Rep(ClsI(Digit \cup Upper), 5, 7), Eol>>) >>,
      confidence |-> Dec(92, 100)],
     [brand |-> "Asics",
      patterns |->
        << Cat(<<Bol, Digits(4, 4), Letters(1, 1), Digits(3, 4),
                 Opt(Cat(<<Hyphen, Digits(3, 3)>>)), Eol>>),
           Cat(<<Bol, Lit(<<"1">>), Digits(3, 3), Letters(1, 1), Digits(3, 3),
                 Hyphen, Digits(3, 3), Eol>>) >>,
      confidence |-> Dec(88, 100)],
     [brand |-> "Reebok",
      patterns |->
        << Cat(<<Bol, Letters(2, 2), Digits(4, 4), Eol>>),
           Cat(<<Bol, Digits(2, 2), Hyphen, Digits(5, 5), Eol>>) >>,
      confidence |-> Dec(85, 100)] >>

\* the generic fallback: it looks like a product code
GenericPattern ==
  Cat(<<Bol, Rep(ClsI(Upper \cup Digit), 5, 12),
        Opt(Cat(<<Hyphen, Rep(ClsI(Upper \cup Digit), 2, 4)>>)), Eol>>)

\* sku.toUpperCase().trim().replace(/\s+/g, '')
NormalizeSku(sku) == StripWhite(Trim(ToUpperCase(sku)))

\* whether some pattern of the rule matches
RuleMatches(rule, normalized) ==
  \E m \in 1..Len(rule.patterns) : Test(rule.patterns[m], normalized)

\* the first rule that matches, 0 for none
FirstRule(rules, normalized) ==
  LET hits == {n \in 1..Len(rules) : RuleMatches(rules[n], normalized)}
  IN  IF hits = {} THEN 0 ELSE CHOOSE n \in hits : \A m \in hits : n <= m

\* a classifier that knows no brand rule
classifySkuGenericOnly(sku) ==
  IF sku = <<>> \/ ~IsString(sku)
    THEN [brand |-> "Unknown", confidence |-> DZero, normalized |-> <<>>]
  ELSE IF Test(GenericPattern, NormalizeSku(sku))
    THEN [brand |-> "Unknown", confidence |-> Dec(5, 10),
          normalized |-> NormalizeSku(sku)]
  ELSE [brand |-> "Unknown", confidence |-> DZero, normalized |-> NormalizeSku(sku)]

classifySku(sku) ==
  IF sku = <<>> \/ ~IsString(sku)
    THEN [brand |-> "Unknown", confidence |-> DZero, normalized |-> <<>>]
  ELSE
    LET normalized == NormalizeSku(sku)
        rules      == BRAND_PATTERNS
        n          == FirstRule(rules, normalized)
    IN  IF n > 0
          THEN [brand |-> rules[n].brand, confidence |-> rules[n].confidence,
                normalized |-> normalized]
        ELSE IF Test(GenericPattern, normalized)
          THEN [brand |-> "Unknown", confidence |-> Dec(5, 10),
                normalized |-> normalized]
        ELSE [brand |-> "Unknown", confidence |-> DZero, normalized |-> normalized]


(***************************************************************************)
(* Query validation (utils/validation.js)                                  *)
(***************************************************************************)
\* /^[0-9]+$/
AllDigitsPattern == Cat(<<Bol, Rep(Cls(Digit), 1, -1), Eol>>)

\* /[^A-Za-z0-9\-\s]/
ImpossibleCharPattern == NotCls(Upper \cup Lower \cup Digit \cup {"-"} \cup White)

\* a validator without the check for short runs of digits
validateSkuQueryNoDigitsCheck(query) ==
  IF query = <<>> \/ ~IsString(query)
    THEN [valid |-> FALSE, error |-> "Query is required and must be a string"]
  ELSE IF Len(Trim(query)) < 4
    THEN [valid |-> FALSE, error |-> "Query too short (minimum 4 characters)"]
  ELSE IF Len(Trim(query)) > 20
    THEN [valid |-> FALSE, error |-> "Query too long (maximum 20 characters)"]
  ELSE IF \E i \in 1..Len(Trim(query)) :
            Trim(query)[i] \notin Upper \cup Lower \cup Digit \cup {"-"} \cup White
    THEN [valid |-> FALSE, error |-> "Query contains invalid characters"]
  ELSE [valid |-> TRUE, normalized |-> StripWhite(ToUpperCase(Trim(query)))]

\* a validator that passes the query on trimmed and in upper case, with the
\* whitespace inside it
validateSkuQueryKeepingSpaces(query) ==
  IF query = <<>> \/ ~IsString(query)
    THEN [valid |-> FALSE, error |-> "Query is required and must be a string"]
  ELSE IF Len(Trim(query)) < 4
    THEN [valid |-> FALSE, error |-> "Query too short (minimum 4 characters)"]
  ELSE IF Len(Trim(query)) > 20
    THEN [valid |-> FALSE, error |-> "Query too long (maximum 20 characters)"]
  ELSE IF Test(AllDigitsPattern, Trim(query)) /\ Len(Trim(query)) < 6
    THEN [valid |-> FALSE,
          error |-> "Query appears to be invalid (too few characters)"]
  ELSE IF Test(ImpossibleCharPattern, Trim(query))
    THEN [valid |-> FALSE, error |-> "Query contains invalid characters"]
  ELSE [valid |-> TRUE, normalized |-> ToUpperCase(Trim(query))]

validateSkuQuery(query) ==
  IF query = <<>> \/ ~IsString(query)
    THEN [valid |-> FALSE, error |-> "Query is required and must be a string"]
  ELSE
    LET trimmed == Trim(query)
    IN  IF Len(trimmed) < 4
          THEN [valid |-> FALSE, error |-> "Query too short (minimum 4 characters)"]
        ELSE IF Len(trimmed) > 20
          THEN [valid |-> FALSE, error |-> "Query too long (maximum 20 characters)"]
        ELSE IF Test(AllDigitsPattern, trimmed) /\ Len(trimmed) < 6
          THEN [valid |-> FALSE,
                error |-> "Query appears to be invalid (too few characters)"]
        ELSE IF Test(ImpossibleCharPattern, trimmed)
          THEN [valid |-> FALSE, error |-> "Query contains invalid characters"]
        ELSE [valid |-> TRUE, normalized |-> StripWhite(ToUpperCase(trimmed))]


(***************************************************************************)
(* Normalizer (services/normalizer.js)                                     *)
(***************************************************************************)
Quote == Cls({"'", "\""})

NumberRun == Rep(Cls(Digit), 1, -1)

Spaces == Rep(Cls(White), 0, -1)

LowHighMid == Alt(<<LitI(Str("Low")), LitI(Str("High")), LitI(Str("Mid"))>>)

\* a substring test per brand, most specific first
brandPatterns ==
  << [brand |-> "Jordan", patterns |-> <<"AIR JORDAN", "JORDAN">>],
     [brand |-> "Nike",
      patterns |-> <<"NIKE", "DUNK", "AIR FORCE", "AIR MAX", "BLAZER", "CORTEZ">>],
     [brand |-> "Adidas",
      patterns |-> <<"ADIDAS", "YEEZY", "ULTRABOOST", "NMD", "SUPERSTAR", "STAN SMITH">>],
     [brand |-> "New Balance", patterns |-> <<"NEW BALANCE", "NB ">>],
     [brand |-> "Puma", patterns |-> <<"PUMA">>],
     [brand |-> "Converse", patterns |-> <<"CONVERSE", "CHUCK TAYLOR", "ALL STAR">>],
     [brand |-> "Vans", patterns |-> <<"VANS", "OLD SKOOL", "SK8-HI", "AUTHENTIC">>],
     [brand |-> "Asics", patterns |-> <<"ASICS", "GEL-LYTE", "GEL-KAYANO">>],
     [brand |-> "Reebok", patterns |-> <<"REEBOK", "CLUB C", "CLASSIC LEATHER">>] >>

\* the first brand of an ordered table with a pattern occurring in upper
FirstBrandIn(table, upper) ==
  LET hits == {n \in 1..Len(table) :
                 \E m \in 1..Len(table[n].patterns) :
                    Includes(upper, Str(table[n].patterns[m]))}
  IN  IF hits = {} THEN NULL
      ELSE Str(table[CHOOSE x \in hits : \A y \in hits : x <= y].brand)

extractBrand(name) ==
  IF ~Truthy(name) THEN NULL ELSE FirstBrandIn(brandPatterns, ToUpperCase(name))

\* each is the group of /\b(...)\b/i
modelPatterns ==
  << Cat(<<LitI(Str("Air Jordan ")), NumberRun>>),
     Cat(<<LitI(Str("Jordan ")), NumberRun, Opt(LitI(Str(" Retro")))>>),
     Cat(<<LitI(Str("Dunk ")), LowHighMid>>),
     Cat(<<LitI(Str("Air Force 1")),
           Opt(Alt(<<LitI(Str(" Low")), LitI(Str(" High")), LitI(Str(" Mid")),
                     LitI(Str(" '07"))>>))>>),
     Cat(<<LitI(Str("Air Max ")), NumberRun>>),
     Cat(<<LitI(Str("Blazer ")),
           Alt(<<LitI(Str("Low")), LitI(Str("Mid")), LitI(Str("High"))>>)>>),
     LitI(Str("Cortez")),
     Cat(<<LitI(Str("Yeezy ")), Opt(LitI(Str("Boost "))), NumberRun,
           Opt(Cat(<<Spaces, LitI(Str("V")), Cls(Digit)>>))>>),
     Cat(<<LitI(Str("Ultra")), Opt(Cls({" "})), LitI(Str("Boost")),
           Opt(Cat(<<Spaces, NumberRun>>))>>),
     Cat(<<LitI(Str("NMD")), Opt(Cls({"_", " "})), Opt(LitI(Str("R"))),
           Opt(Cls(Digit))>>),
     LitI(Str("Superstar")),
     LitI(Str("Stan Smith")),
     Cat(<<LitI(Str("Forum ")), LowHighMid>>),
     Cat(<<Rep(Cls(Digit), 3, 4), Opt(Cat(<<LitI(Str("v")), Cls(Digit)>>))>>),
     Alt(<<LitI(Str("Chuck Taylor")), LitI(Str("Chuck 70")), LitI(Str("All Star"))>>),
     Alt(<<LitI(Str("Old Skool")), LitI(Str("Sk8-Hi")), LitI(Str("Authentic")),
           LitI(Str("Era")), LitI(Str("Slip-On"))>>),
     Cat(<<LitI(Str("Gel-Lyte")),
           Opt(Cat(<<Spaces, Rep(ClsI({"I", "V", "X"}), 1, -1)>>))>>),
     Cat(<<LitI(Str("Gel-Kayano")), Opt(Cat(<<Spaces, NumberRun>>))>>) >>

\* the capture of the first pattern of an ordered list that matches
RECURSIVE FirstModel(_, _, _)
FirstModel(patterns, n, name) ==
  IF n > Len(patterns) THEN NULL
  ELSE OrNull(Match1(WordB, patterns[n], WordB, name),
              FirstModel(patterns, n + 1, name))

extractModel(name) ==
  IF ~Truthy(name) THEN NULL ELSE FirstModel(modelPatterns, 1, name)

colorwayKeywords ==
  <<"Panda", "Bred", "Chicago", "Royal", "Shadow", "Pine Green",
    "University Blue", "Fire Red", "Cement", "Infrared", "Concord",
    "White Oreo", "Black Cat", "Cool Grey", "Triple White", "Triple Black",
    "Zebra", "Beluga", "Cream", "Butter", "Static", "Bone",
    "Grey Day", "Sea Salt", "Navy", "Burgundy", "Forest Green">>

\* /^\d{4}$/
YearPattern == Cat(<<Bol, Rep(Cls(Digit), 4, 4), Eol>>)

\* name.match(/['"]([^'"]+)['"]/)
QuoteMatch(name) ==
  Match1(Quote, Rep(NotCls({"'", "\""}), 1, -1), Quote, name)

\* name.match(/Retro\s+['"]?([^'"(]+?)['"]?\s*(?:\(\d{4}\)|\d{4})?$/i)
RetroMatch(name) ==
  Match1(Cat(<<LitI(Str("Retro")), Rep(Cls(White), 1, -1), Opt(Quote)>>),
         RepLazy(NotCls({"'", "\"", "("}), 1, -1),
         Cat(<<Opt(Quote), Spaces,
               Opt(Alt(<<Cat(<<Cls({"("}), Rep(Cls(Digit), 4, 4), Cls({")"})>>),
                         Rep(Cls(Digit), 4, 4)>>)),
               Eol>>),
         name)

\* name.match(/\(([^)]+)\)/)
ParenMatch(name) ==
  Match1(Cls({"("}), Rep(NotCls({")"}), 1, -1), Cls({")"}), name)

KeywordColorway(name) ==
  LET upper == ToUpperCase(name)
      hits  == {n \in 1..Len(colorwayKeywords) :
                  Includes(upper, ToUpperCase(Str(colorwayKeywords[n])))}
  IN  IF hits = {} THEN NULL
      ELSE Str(colorwayKeywords[CHOOSE x \in hits : \A y \in hits : x <= y])

\* match[1].trim() of a match
TrimMatch(m) == IF m # NULL THEN Trim(m) ELSE NULL

\* parenMatch && !parenMatch[1].match(/^\d{4}$/)
NotYear(m) == IF m # NULL /\ ~Test(YearPattern, m) THEN m ELSE NULL

extractColorway(name) ==
  IF ~Truthy(name) THEN NULL
  ELSE OrNull(QuoteMatch(name),
         OrNull(TrimMatch(RetroMatch(name)),
           OrNull(NotYear(ParenMatch(name)), KeywordColorway(name))))

\* whether normalizeResult throws a TypeError: a name that is not a string
\* reaches toUpperCase or match
normalizeThrows(result) ==
  LET name == OrElse(result.name, <<>>)
  IN  /\ Truthy(name) /\ ~IsString(name)
      /\ (~Truthy(result.brand) \/ ~Truthy(result.model) \/ ~Truthy(result.colorway))

normalizeResult(result) ==
  LET name == OrElse(result.name, <<>>)
  IN  [brand    |-> OrElse(result.brand, extractBrand(name)),
       name     |-> name,
       model    |-> OrElse(result.model, extractModel(name)),
       colorway |-> OrElse(result.colorway, extractColorway(name)),
       category |-> OrElse(result.category, Str("sneakers"))]


(***************************************************************************)
(* KicksDB adapter (resolvers/kicksdb.js).  The provider's answer is the   *)
(* record o: o.kind is "nokey" (no API key configured), "neterr" (fetch    *)
(* rejects), "status" (a non-OK HTTP status), "badjson" (the body does not *)
(* parse), "noarray" (data.data is not an array) or "ok", with o.items the *)
(* array data.data.  An item's absent field is UNDEF.                      *)
(***************************************************************************)
kicksBrands ==
  <<"Nike", "Jordan", "Adidas", "New Balance", "Puma", "Converse", "Vans",
    "Asics", "Reebok", "Yeezy">>

extractBrandFromTitle(title) ==
  IF ~Truthy(title) THEN NULL
  ELSE LET upper == ToUpperCase(title)
           hits  == {n \in 1..Len(kicksBrands) :
                       Includes(upper, ToUpperCase(Str(kicksBrands[n])))}
       IN  IF hits # {}
             THEN Str(kicksBrands[CHOOSE x \in hits : \A y \in hits : x <= y])
           ELSE IF Includes(upper, Str("AIR JORDAN")) \/ Includes(upper, Str("JORDAN"))
             THEN Str("Jordan")
           ELSE NULL

\* each is the group of /\b(...)\b/i
kicksModelPatterns ==
  << Cat(<<LitI(Str("Dunk ")), LowHighMid>>),
     Cat(<<LitI(Str("Air Force 1")),
           Opt(Alt(<<LitI(Str(" Low")), LitI(Str(" High")), LitI(Str(" Mid"))>>))>>),
     Cat(<<LitI(Str("Air Max ")), NumberRun>>),
     Cat(<<LitI(Str("Air Jordan ")), NumberRun>>),
     Cat(<<LitI(Str("Jordan ")), NumberRun, Opt(LitI(Str(" Retro")))>>),
     Cat(<<LitI(Str("Yeezy ")), Opt(LitI(Str("Boost "))), NumberRun,
           Opt(Cat(<<Spaces, LitI(Str("V")), Cls(Digit)>>))>>),
     Cat(<<LitI(Str("Ultra")), Opt(Cls({" "})), LitI(Str("Boost"))>>),
     Cat(<<LitI(Str("NMD")), Opt(Cls({"_", " "})), Opt(LitI(Str("R"))),
           Opt(Cls(Digit))>>),
     Cat(<<Rep(Cls(Digit), 3, 4), Opt(Cat(<<LitI(Str("v")), Cls(Digit)>>))>>) >>

extractModelFromTitle(title) ==
  IF ~Truthy(title) THEN NULL ELSE FirstModel(kicksModelPatterns, 1, title)

extractColorwayFromTitle(title) ==
  IF ~Truthy(title) THEN NULL ELSE QuoteMatch(title)

\* x?.toUpperCase() throws a TypeError: x is neither a string nor nullish
UpperThrows(x) == x # NULL /\ x # UNDEF /\ ~IsString(x)

\* items.find(item => item[field]?.toUpperCase() === sku.toUpperCase()): the
\* index found, 0 for undefined, -1 when the callback throws
RECURSIVE FindExact(_, _, _, _)
FindExact(items, n, field, sku) ==
  IF n > Len(items) THEN 0
  ELSE IF UpperThrows(items[n][field]) THEN -1
  ELSE IF Truthy(items[n][field]) /\ ToUpperCase(items[n][field]) = ToUpperCase(sku)
    THEN n
  ELSE FindExact(items, n + 1, field, sku)

\* a string method is called on a title that is no string
TitleThrows(item) ==
  /\ Truthy(item.title) /\ ~IsString(item.title)
  /\ (~Truthy(item.brand) \/ ~Truthy(item.model) \/ ~Truthy(item.colorway))

\* the object built from the chosen item
KicksResult(item, sku, exact) ==
  [brand      |-> OrElse(item.brand, extractBrandFromTitle(item.title)),
   name       |-> OrElse(OrElse(item.title, item.name), <<>>),
   model      |-> OrElse(item.model, extractModelFromTitle(item.title)),
   colorway   |-> OrElse(item.colorway, extractColorwayFromTitle(item.title)),
   category   |-> IF item.categories # UNDEF /\ item.categories # <<>>
                    THEN OrElse(item.categories[1], Str("sneakers"))
                    ELSE Str("sneakers"),
   sku        |-> OrElse(item.sku, sku),
   source     |-> "kicksdb",
   exactMatch |-> exact]

\* the value the promise resolves to: <<result>>, or <<>> for null; every
\* exception raised after the key check is caught and gives null
resolveWithKicksDb(sku, o) ==
  IF o.kind = "nokey" THEN <<>>
  ELSE IF o.kind \in {"neterr", "status", "badjson", "noarray"} THEN <<>>
  ELSE IF Len(o.items) = 0 THEN <<>>
  ELSE LET found == FindExact(o.items, 1, "sku", sku)
       IN  IF found = -1 THEN <<>>
           ELSE LET item == IF found > 0 THEN o.items[found] ELSE o.items[1]
                IN  IF TitleThrows(item) THEN <<>>
                    ELSE <<KicksResult(item, sku, found > 0)>>

(***************************************************************************)
(* Sneaks adapter (resolvers/sneaks.js).  The provider's answer is the     *)
(* record o: getProductPrices calls back with (o.pricesErr, o.product),    *)
(* getProducts with (o.searchErr, o.products).  o.product is <<p>> for a   *)
(* product p and <<>> for none; o.products is <<>> for none or no array.   *)
(***************************************************************************)
sneaksBrandPatterns ==
  << [brand |-> "Jordan", patterns |-> <<"JORDAN", "AIR JORDAN">>],
     [brand |-> "Nike", patterns |-> <<"NIKE", "DUNK", "AIR FORCE", "AIR MAX">>],
     [brand |-> "Adidas", patterns |-> <<"ADIDAS", "YEEZY">>],
     [brand |-> "New Balance", patterns |-> <<"NEW BALANCE">>] >>

\* product.shoeName || product.name || ''
SneaksName(product) == OrElse(OrElse(product.shoeName, product.name), <<>>)

extractBrandFromSneaks(product) ==
  IF Truthy(product.brand) THEN product.brand
  ELSE FirstBrandIn(sneaksBrandPatterns, ToUpperCase(SneaksName(product)))

\* each is the group of /\b(...)\b/i
sneaksModelPatterns ==
  << Cat(<<LitI(Str("Dunk ")), LowHighMid>>),
     LitI(Str("Air Force 1")),
     Cat(<<LitI(Str("Air Max ")), NumberRun>>),
     Cat(<<LitI(Str("Jordan ")), NumberRun, Opt(LitI(Str(" Retro")))>>),
     Cat(<<LitI(Str("Yeezy ")), Opt(LitI(Str("Boost "))), NumberRun>>) >>

extractModelFromSneaks(product) ==
  FirstModel(sneaksModelPatterns, 1, SneaksName(product))

\* formatSneaksResult throws a TypeError: match (or toUpperCase) is called
\* on a name that is no string
formatThrows(product) == ~IsString(SneaksName(product))

\* both callers pass a product that is truthy
formatSneaksResult(product, querySku, exactMatch) ==
  [brand      |-> OrElse(product.brand, extractBrandFromSneaks(product)),
   name       |-> SneaksName(product),
   model      |-> extractModelFromSneaks(product),
   colorway   |-> OrElse(product.colorway, <<>>),
   category   |-> Str("sneakers"),
   sku        |-> OrElse(product.styleID, querySku),
   source     |-> "sneaks",
   exactMatch |-> exactMatch]

\* how the promise settles: [status |-> "value", value |-> v] when resolve(v)
\* is called (v is <<result>>, or <<>> for null), [status |-> "throws"] when a
\* callback throws before calling it: nothing in the adapter catches that
resolveWithSneaks(sku, o) ==
  IF ~o.pricesErr /\ o.product # <<>>
    THEN IF formatThrows(o.product[1]) THEN [status |-> "throws", value |-> <<>>]
         ELSE [status |-> "value",
               value |-> <<formatSneaksResult(o.product[1], sku, TRUE)>>]
  ELSE IF o.searchErr \/ Len(o.products) = 0
    THEN [status |-> "value", value |-> <<>>]
  ELSE LET found == FindExact(o.products, 1, "styleID", sku)
       IN  IF found = -1 THEN [status |-> "throws", value |-> <<>>]
           ELSE LET product == IF found > 0 THEN o.products[found] ELSE o.products[1]
                IN  IF formatThrows(product) THEN [status |-> "throws", value |-> <<>>]
                    ELSE [status |-> "value",
                          value |-> <<formatSneaksResult(product, sku, found > 0)>>]


(***************************************************************************)
(* The state                                                               *)
(***************************************************************************)
VARIABLES
  cache,   \* the Map of db/cache.js: normalized SKU -> [data, timestamp]
  clock,   \* the wall clock Date.now() reads, as counts of the steps it took
  req,     \* per request slot: where its handler stands and what it returned
  calls    \* the number of requests started so far

vars == <<cache, clock, req, calls>>

\* bounds of the model
MaxReq == 2

MaxCalls == 2

MaxTtlCalls == 3

MaxShortTicks == 2

MaxLongTicks == 1

Requests == 1..MaxReq

\* const ttlMs = 30 * 24 * 60 * 60 * 1000
ttlMs ==
  BMul(BMul(BMul(BMul(BFromInt(30), BFromInt(24)), BFromInt(60)), BFromInt(60)),
       BFromInt(1000))

\* the clock moves in steps of 1 ms and in steps of ttlMs - 1 ms
LongTick == BSub(ttlMs, BFromInt(1))

TimeOf(c) == BAdd(BMul(BFromInt(c.long), LongTick), BFromInt(c.short))

\* Date.now()
Now == TimeOf(clock)

(***************************************************************************)
(* Cache (db/cache.js)                                                     *)
(***************************************************************************)
\* cache.get(normalized), <<>> for undefined
MapGet(c, key) == IF key \in DOMAIN c THEN <<c[key]>> ELSE <<>>

\* cache.set(key, entry)
MapSet(c, key, entry) == (key :> entry) @@ c

\* cache.delete(key)
MapDelete(c, key) == [k \in DOMAIN c \ {key} |-> c[k]] @@ <<>>

\* an entry that is still served when its age equals the time to live
FreshInclusive(entry, now) == BCmp(BSub(now, entry.timestamp), ttlMs) <= 0

\* Date.now() - entry.timestamp < ttlMs
Fresh(entry, now) == BCmp(BSub(now, entry.timestamp), ttlMs) < 0

\* a lookup that makes the time of a hit the creation time of the entry
getCachedTouching(c, now, sku) ==
  IF ~Truthy(sku) THEN [value |-> <<>>, cache |-> c]
  ELSE IF MapGet(c, Trim(ToUpperCase(sku))) = <<>> THEN [value |-> <<>>, cache |-> c]
  ELSE IF Fresh(c[Trim(ToUpperCase(sku))], now)
    THEN [value |-> <<[fromCache |-> TRUE] @@ c[Trim(ToUpperCase(sku))].data>>,
          cache |-> MapSet(c, Trim(ToUpperCase(sku)),
                           [c[Trim(ToUpperCase(sku))] EXCEPT !.timestamp = now])]
  ELSE [value |-> <<>>, cache |-> MapDelete(c, Trim(ToUpperCase(sku)))]

\* getCached(sku) at time now on the Map c: the value returned (<<data>>, or
\* <<>> for null) and the Map it leaves
getCached(c, now, sku) ==
  IF ~Truthy(sku) THEN [value |-> <<>>, cache |-> c]
  ELSE LET normalized == Trim(ToUpperCase(sku))
           entry      == MapGet(c, normalized)
       IN  IF entry # <<>>
             THEN IF Fresh(entry[1], now)
                    THEN [value |-> <<[fromCache |-> TRUE] @@ entry[1].data>>,
                          cache |-> c]
                    ELSE [value |-> <<>>, cache |-> MapDelete(c, normalized)]
             ELSE [value |-> <<>>, cache |-> c]

\* a write that keeps the source of the entry it replaces
setCacheKeepingSource(c, now, sku, data) ==
  IF ~Truthy(sku) THEN c
  ELSE IF Trim(ToUpperCase(sku)) \in DOMAIN c
    THEN MapSet(c, Trim(ToUpperCase(sku)),
                [data |-> [data EXCEPT !.source = c[Trim(ToUpperCase(sku))].data.source],
                 timestamp |-> now])
  ELSE MapSet(c, Trim(ToUpperCase(sku)), [data |-> data, timestamp |-> now])

\* a write that leaves the creation time of an entry the Map already holds
setCacheKeepingTimestamp(c, now, sku, data) ==
  IF ~Truthy(sku) THEN c
  ELSE IF Trim(ToUpperCase(sku)) \in DOMAIN c
    THEN MapSet(c, Trim(ToUpperCase(sku)),
                [data |-> data, timestamp |-> c[Trim(ToUpperCase(sku))].timestamp])
  ELSE MapSet(c, Trim(ToUpperCase(sku)), [data |-> data, timestamp |-> now])

\* setCache(sku, data) at time now on the Map c: the Map it leaves
setCache(c, now, sku, data) ==
  IF ~Truthy(sku) THEN c
  ELSE MapSet(c, Trim(ToUpperCase(sku)), [data |-> data, timestamp |-> now])

\* getCacheStats()
getCacheStats(c) == [total |-> Cardinality(DOMAIN c), recentHits |-> 0]

(***************************************************************************)
(* Text extraction (routes/ocr.js, services/ocr.js)                        *)
(***************************************************************************)
RECURSIVE SkipWhite(_, _)
SkipWhite(s, i) == IF i <= Len(s) /\ s[i] \in White THEN SkipWhite(s, i + 1) ELSE i

\* s.split(/[\n\r\s]+/) from position i on, the piece under way having
\* begun at position start
RECURSIVE SplitFrom(_, _, _)
SplitFrom(s, i, start) ==
  IF i > Len(s) THEN <<SubSeq(s, start, Len(s))>>
  ELSE IF s[i] \in White
    THEN LET next == SkipWhite(s, i)
         IN  <<SubSeq(s, start, i - 1)>> \o SplitFrom(s, next, next)
  ELSE SplitFrom(s, i + 1, start)

SplitWhite(s) == SplitFrom(s, 1, 1)

\* line.trim().replace(/[^\w-]/g, '')
CleanLine(line) == SelectSeq(Trim(line), LAMBDA c : c \in WordCh \cup {"-"})

\* results.sort((a, b) => b.confidence - a.confidence): the sort is stable
RECURSIVE InsertByConfidence(_, _)
InsertByConfidence(sorted, x) ==
  IF sorted = <<>> THEN <<x>>
  ELSE IF DGe(Head(sorted).confidence, x.confidence)
    THEN <<Head(sorted)>> \o InsertByConfidence(Tail(sorted), x)
  ELSE <<x>> \o sorted

RECURSIVE SortByConfidence(_, _)
SortByConfidence(xs, n) ==
  IF n = 0 THEN <<>>
  ELSE InsertByConfidence(SortByConfidence(xs, n - 1), xs[n])

\* what a line adds to results, classification being classifySku(cleaned)
SkusOfLine(cleaned, classification) ==
  IF Len(cleaned) < 5 \/ Len(cleaned) > 15 THEN <<>>
  ELSE IF ~DGe(Dec(3, 10), classification.confidence)
    THEN <<[sku |-> classification.normalized, brand |-> classification.brand,
            confidence |-> classification.confidence]>>
  ELSE <<>>

RECURSIVE SkusOfLines(_, _)
SkusOfLines(lines, n) ==
  IF n > Len(lines) THEN <<>>
  ELSE SkusOfLine(CleanLine(lines[n]), classifySku(CleanLine(lines[n])))
         \o SkusOfLines(lines, n + 1)

SortedByConfidence(xs) == SortByConfidence(xs, Len(xs))

extractSkusFromText(text) ==
  IF ~Truthy(text) THEN <<>>
  ELSE SortedByConfidence(SkusOfLines(SplitWhite(ToUpperCase(text)), 1))

\* (\d{1,2}(?:\.\d)?)
SizeNumber == Cat(<<Rep(Cls(Digit), 1, 2), Opt(Cat(<<Cls({"."}), Cls(Digit)>>))>>)

\* \s*[:#]?\s*
SizeGap ==
  Cat(<<Rep(Cls(White), 0, -1), Opt(Cls({":", "#"})), Rep(Cls(White), 0, -1)>>)

extractUsSize(text) ==
  IF ~Truthy(text) THEN NULL
  ELSE LET m1 == Match1(Cat(<<WordB, LitI(Str("US")), SizeGap>>), SizeNumber, WordB, text)
           m2 == Match1(WordB, SizeNumber,
                        Cat(<<Rep(Cls(White), 0, -1), LitI(Str("US")), WordB>>), text)
           m3 == Match1(Cat(<<WordB, LitI(Str("SIZE")), SizeGap>>), SizeNumber, WordB, text)
       IN  OrNull(m1, OrNull(m2, m3))

brandKeywords ==
  <<[brand |-> "Nike",        patterns |-> <<"NIKE", "SWOOSH", "JUST DO IT">>],
    [brand |-> "Jordan",      patterns |-> <<"JORDAN", "AIR JORDAN", "JUMPMAN">>],
    [brand |-> "Adidas",      patterns |-> <<"ADIDAS", "THREE STRIPES", "TREFOIL">>],
    [brand |-> "New Balance", patterns |-> <<"NEW BALANCE", "NB", "NEWBALANCE">>],
    [brand |-> "Puma",        patterns |-> <<"PUMA">>],
    [brand |-> "Converse",    patterns |-> <<"CONVERSE", "CHUCK TAYLOR", "ALL STAR">>],
    [brand |-> "Vans",        patterns |-> <<"VANS", "OFF THE WALL">>],
    [brand |-> "Asics",       patterns |-> <<"ASICS", "GEL-">>],
    [brand |-> "Reebok",      patterns |-> <<"REEBOK">>]>>

detectBrandFromText(text) ==
  IF ~Truthy(text) THEN NULL ELSE FirstBrandIn(brandKeywords, ToUpperCase(text))

\* the result for the text rawText, skus being extractSkusFromText(rawText)
OcrSuccess(rawText, skus) ==
  [success |-> TRUE, raw_text |-> rawText,
   extracted |->
     [sku |-> IF Len(skus) > 0 THEN OrElse(skus[1].sku, NULL) ELSE NULL,
      sku_confidence |-> IF Len(skus) > 0 THEN skus[1].confidence ELSE DZero,
      all_skus |-> skus,
      us_size |-> extractUsSize(rawText),
      brand_hint |-> IF Len(skus) > 0 THEN Str(skus[1].brand)
                     ELSE detectBrandFromText(rawText)]]

\* extractTextFromImage(image), the Vision call answering o: o.kind is
\* "error" (the call throws), "nodetect" (no text annotations) or "text",
\* with o.text the description of the first annotation
extractTextFromImage(o) ==
  IF o.kind = "error" THEN [success |-> FALSE, error |-> "OCR failed"]
  ELSE IF o.kind = "nodetect"
    THEN [success |-> FALSE, error |-> "No text detected in image"]
  ELSE OcrSuccess(OrElse(o.text, <<>>), extractSkusFromText(OrElse(o.text, <<>>)))

\* validateImageData(image), image standing for the size of what it decodes
\* to: "missing" (no image, or no string), "small" (under 1000 bytes),
\* "large" (over 10 MB) or "ok"
validateImageData(image) ==
  IF image = "missing" THEN [valid |-> FALSE, error |-> "Image data is required"]
  ELSE IF image = "small" THEN [valid |-> FALSE, error |-> "Image too small"]
  ELSE IF image = "large" THEN [valid |-> FALSE, error |-> "Image too large (max 10MB)"]
  ELSE [valid |-> TRUE]


(***************************************************************************)
(* The environment: what callers send and what the providers answer        *)
(***************************************************************************)
\* the queries sent to POST /resolve and GET /resolve/:sku
Queries ==
  {Str("dd1391-100"), Str("abcd"), Str("AB"), Str("12345"), Str("ZZ0000-000"),
   Str("m990gl5")}

\* the identifiers other modules hand to the exported resolve
DirectSkus == {<<>>, Str(" ")}

\* the texts the Vision API reads off an image
OcrTexts == {Str("US 9 12345"), Str("NIKE DD1391-100"), Str("SIZE")}

Images == {"missing", "small", "large", "ok"}

OcrOutcomes ==
  {[kind |-> "error", text |-> <<>>], [kind |-> "nodetect", text |-> <<>>]}
    \cup {[kind |-> "text", text |-> t] : t \in OcrTexts}

\* the calls of an OCR route: without credentials, with credentials and an
\* image that fails validation, with credentials and a good image
OcrCalls ==
  {[configured |-> FALSE, image |-> "ok", o |-> [kind |-> "nodetect", text |-> <<>>]]}
    \cup {[configured |-> TRUE, image |-> i, o |-> [kind |-> "nodetect", text |-> <<>>]] :
            i \in Images \ {"ok"}}
    \cup {[configured |-> TRUE, image |-> "ok", o |-> o] : o \in OcrOutcomes}

KicksItem(sku, title, name) ==
  [sku |-> sku, brand |-> UNDEF, title |-> title, name |-> name, model |-> UNDEF,
   colorway |-> UNDEF, categories |-> UNDEF]

KicksItems ==
  {KicksItem(Str("DD1391-100"), Str("Nike Dunk Low Retro White Black Panda"), UNDEF),
   KicksItem(Str("ZZ-1"), Str("Mystery Shoe"), UNDEF),
   KicksItem(NOTSTR, Str("Mystery Shoe"), UNDEF),
   KicksItem(Str("ZZ-1"), UNDEF, NOTSTR)}

KicksOutcomes ==
  {[kind |-> k, items |-> <<>>] :
      k \in {"nokey", "neterr", "status", "badjson", "noarray", "ok"}}
    \cup {[kind |-> "ok", items |-> <<i>>] : i \in KicksItems}

SneaksProduct(styleID, shoeName) ==
  [styleID |-> styleID, brand |-> UNDEF, shoeName |-> shoeName, name |-> UNDEF,
   colorway |-> UNDEF]

SneaksOutcomes ==
  {[pricesErr |-> FALSE, searchErr |-> FALSE, products |-> <<>>,
    product |-> <<SneaksProduct(Str("DD1391-100"), Str("Nike Dunk Low Panda"))>>],
   [pricesErr |-> FALSE, searchErr |-> FALSE, products |-> <<>>,
    product |-> <<SneaksProduct(Str("DD1391-100"), NOTSTR)>>],
   [pricesErr |-> TRUE, searchErr |-> TRUE, products |-> <<>>, product |-> <<>>],
   [pricesErr |-> TRUE, searchErr |-> FALSE, products |-> <<>>, product |-> <<>>],
   [pricesErr |-> TRUE, searchErr |-> FALSE, product |-> <<>>,
    products |-> <<SneaksProduct(Str("ZZ-1"), Str("Mystery Shoe"))>>],
   [pricesErr |-> TRUE, searchErr |-> FALSE, product |-> <<>>,
    products |-> <<SneaksProduct(Str("ZZ-1"), Str("New Balance Mystery"))>>],
   [pricesErr |-> TRUE, searchErr |-> FALSE, product |-> <<>>,
    products |-> <<SneaksProduct(NOTSTR, Str("Mystery Shoe"))>>]}

(***************************************************************************)
(* The pure steps of the pipeline, tabulated over the identifiers and the  *)
(* provider answers above                                                  *)
(***************************************************************************)
\* const validation = validateSkuQuery(query)
validations == [query \in Queries |-> validateSkuQuery(query)] @@ <<>>

\* the result of extractTextFromImage for each answer of the Vision API
ocrResults == [o \in OcrOutcomes |-> extractTextFromImage(o)] @@ <<>>

\* the arguments resolve is called with: validation.normalized of the valid
\* queries, the identifiers of direct calls, the SKUs extracted from the texts
ResolveArguments ==
  {Str("DD1391-100"), Str("ABCD"), Str("12345"), Str("ZZ0000-000"), Str("M990GL5")}
    \cup DirectSkus

\* const classification = classifySku(sku)
classifications == [sku \in ResolveArguments |-> classifySku(sku)] @@ <<>>

\* const normalizedSku = classification.normalized || sku.toUpperCase().trim()
NormalizedSku(sku, classification) ==
  OrElse(classification.normalized, Trim(ToUpperCase(sku)))

\* the keys resolve looks up
NormalizedSkus ==
  {Str("DD1391-100"), Str("ABCD"), Str("12345"), Str("ZZ0000-000"), Str("M990GL5"),
   <<>>}

\* await resolveWithKicksDb(normalizedSku)
kicksDbResults ==
  [sku \in NormalizedSkus |->
     [o \in KicksOutcomes |-> resolveWithKicksDb(sku, o)] @@ <<>>] @@ <<>>

\* await resolveWithSneaks(normalizedSku)
sneaksResults ==
  [sku \in NormalizedSkus |->
     [o \in SneaksOutcomes |-> resolveWithSneaks(sku, o)] @@ <<>>] @@ <<>>

\* the arguments calculateConfidence is called with
ScorerInputs ==
  [patternConfidence : {DZero, Dec(5, 10)}
                         \cup {BRAND_PATTERNS[n].confidence : n \in 1..Len(BRAND_PATTERNS)},
   source : {"cache", "kicksdb", "sneaks", "google", "unknown"},
   exactSkuMatch : BOOLEAN, hasBrand : BOOLEAN, hasModel : BOOLEAN,
   hasColorway : BOOLEAN, fromCache : BOOLEAN]

\* const confidence = calculateConfidence({...})
confidences == [in \in ScorerInputs |-> calculateConfidence(in)] @@ <<>>

\* Math.round(confidence * 100) / 100
roundedConfidences ==
  [c \in {confidences[in] : in \in ScorerInputs} |-> RoundedHundredths(c)] @@ <<>>

\* const normalized = normalizeResult(result) for what an adapter found:
\* <<>> when it found nothing or normalizeResult throws
Normalized(found) ==
  IF found = <<>> THEN <<>>
  ELSE IF normalizeThrows(found[1]) THEN <<>>
  ELSE <<normalizeResult(found[1])>>

kicksDbNormalized ==
  [sku \in NormalizedSkus |->
     [o \in KicksOutcomes |-> Normalized(resolveWithKicksDb(sku, o))] @@ <<>>] @@ <<>>

sneaksNormalized ==
  [sku \in NormalizedSkus |->
     [o \in SneaksOutcomes |-> Normalized(resolveWithSneaks(sku, o).value)] @@ <<>>]
    @@ <<>>

(***************************************************************************)
(* Resolver orchestrator (resolvers/index.js).  resolve runs in up to      *)
(* three steps, one per await: to the call of KicksDB, to the call of      *)
(* Sneaks, to its return.  A run of resolve is the record                  *)
(*   [pc, sku, startTime, classification, normalizedSku, result, log,      *)
(*    response]                                                            *)
(* where result is <<result>> once an adapter has returned one, log lists  *)
(* the calls made so far, each adapter's name followed by                  *)
(* how its promise settled ("result", "null" or "throws"), and response is *)
(* <<r>> once resolve has returned r.                                      *)
(***************************************************************************)
\* the threshold of "Cache successful results with good confidence"
CacheThreshold == Dec(5, 10)

ResolvedOf(x) ==
  [brand |-> x.brand, name |-> x.name, model |-> x.model,
   colorway |-> x.colorway, category |-> x.category]

\* a hit scored without the weight of the exact match
HitResponseUnmatched(sku, classification, cached, start, now) ==
  [success |-> TRUE, input |-> sku, resolved |-> ResolvedOf(cached),
   confidence |->
     roundedConfidences[confidences[
       [patternConfidence |-> classification.confidence,
        source |-> "cache", exactSkuMatch |-> FALSE,
        hasBrand |-> Truthy(cached.brand), hasModel |-> Truthy(cached.model),
        hasColorway |-> Truthy(cached.colorway), fromCache |-> TRUE]]],
   source |-> "cache", classification |-> classification,
   timing |-> BSub(now, start)]

\* a hit scored like a fresh result of an unknown source
HitResponseAsFresh(sku, classification, cached, start, now) ==
  [success |-> TRUE, input |-> sku, resolved |-> ResolvedOf(cached),
   confidence |->
     roundedConfidences[confidences[
       [patternConfidence |-> classification.confidence,
        source |-> "cache", exactSkuMatch |-> FALSE,
        hasBrand |-> Truthy(cached.brand), hasModel |-> Truthy(cached.model),
        hasColorway |-> Truthy(cached.colorway), fromCache |-> FALSE]]],
   source |-> "cache", classification |-> classification,
   timing |-> BSub(now, start)]

\* the response to a cache hit
HitResponse(sku, classification, cached, start, now) ==
  LET confidence ==
        confidences[
          [patternConfidence |-> classification.confidence,
           source |-> "cache", exactSkuMatch |-> TRUE,
           hasBrand |-> Truthy(cached.brand), hasModel |-> Truthy(cached.model),
           hasColorway |-> Truthy(cached.colorway), fromCache |-> TRUE]]
  IN  [success |-> TRUE, input |-> sku, resolved |-> ResolvedOf(cached),
       confidence |-> roundedConfidences[confidence], source |-> "cache",
       classification |-> classification, timing |-> BSub(now, start)]

\* a failure response that drops the classification and the timing
MissResponseBare(sku, classification, start, now) ==
  [success |-> FALSE, input |-> sku, error |-> "No match found"]

\* the response when no source has a result
MissResponse(sku, classification, start, now) ==
  [success |-> FALSE, input |-> sku, error |-> "No match found",
   classification |-> classification, timing |-> BSub(now, start)]

\* the confidence of a source's result
ResultConfidence(classification, result, normalized) ==
  confidences[
    [patternConfidence |-> classification.confidence,
     source |-> result.source, exactSkuMatch |-> result.exactMatch,
     hasBrand |-> Truthy(normalized.brand), hasModel |-> Truthy(normalized.model),
     hasColorway |-> Truthy(normalized.colorway), fromCache |-> FALSE]]

\* a resolver that caches whatever it found
ShouldCacheAlways(confidence) == TRUE

\* whether resolve writes the result to the cache
ShouldCache(confidence) == DGe(confidence, CacheThreshold)

\* the object resolve hands to setCache
CacheData(normalized, result, confidence) ==
  [brand |-> normalized.brand, name |-> normalized.name, model |-> normalized.model,
   colorway |-> normalized.colorway, category |-> normalized.category,
   source |-> result.source, confidence |-> confidence]

\* a success response that leaves the source out
SourceResponseNoSource(sku, classification, result, normalized, confidence, start, now) ==
  [success |-> TRUE, input |-> sku, resolved |-> ResolvedOf(normalized),
   confidence |-> roundedConfidences[confidence],
   classification |-> classification, timing |-> BSub(now, start)]

\* the response to a source's result
SourceResponse(sku, classification, result, normalized, confidence, start, now) ==
  [success |-> TRUE, input |-> sku, resolved |-> ResolvedOf(normalized),
   confidence |-> roundedConfidences[confidence], source |-> result.source,
   classification |-> classification, timing |-> BSub(now, start)]

\* resolve(sku) up to its first await: classify, look the cache up, return on
\* a hit and call KicksDB on a miss
resolveLookup(c, now, sku, classification, normalizedSku, got) ==
  LET run == [sku |-> sku, startTime |-> now, classification |-> classification,
              normalizedSku |-> normalizedSku, result |-> <<>>]
  IN  IF got.value # <<>>
        THEN [cache |-> got.cache,
              run |-> run @@ [pc |-> "returned", log |-> <<"classify", "cache">>,
                              response |-> <<HitResponse(sku, classification,
                                                         got.value[1], now, now)>>]]
        ELSE [cache |-> got.cache,
              run |-> run @@ [pc |-> "kicksdb",
                              log |-> <<"classify", "cache", "kicksdb">>,
                              response |-> <<>>]]

resolveNormalized(c, now, sku, classification, normalizedSku) ==
  resolveLookup(c, now, sku, classification, normalizedSku,
                getCached(c, now, normalizedSku))

resolveClassified(c, now, sku, classification) ==
  resolveNormalized(c, now, sku, classification,
                    NormalizedSku(sku, classification))

resolveBegin(c, now, sku) == resolveClassified(c, now, sku, classifications[sku])

\* resolve from a source's result to its return: normalize, score, cache if
\* the confidence allows, respond
resolveScored(c, now, run, result, normalized, confidence) ==
  LET response == SourceResponse(run.sku, run.classification, result,
                                 normalized, confidence, run.startTime, now)
  IN  IF ShouldCache(confidence)
        THEN [cache |-> setCache(c, now, run.normalizedSku,
                                 CacheData(normalized, result, confidence)),
              run |-> [run EXCEPT !.pc = "returned",
                                  !.log = @ \o <<"normalize", "score", "setCache">>,
                                  !.response = <<response>>]]
        ELSE [cache |-> c,
              run |-> [run EXCEPT !.pc = "returned",
                                  !.log = @ \o <<"normalize", "score">>,
                                  !.response = <<response>>]]

\* normalized is <<normalizeResult(result)>>, or <<>> when that call throws
resolveFinish(c, now, run, result, normalized) ==
  IF normalized = <<>>
    THEN [cache |-> c,
          run |-> [run EXCEPT !.pc = "threw", !.log = @ \o <<"normalize">>]]
  ELSE resolveScored(c, now, run, result, normalized[1],
                     ResultConfidence(run.classification, result, normalized[1]))

\* a resolver that asks Sneaks whatever KicksDB answered
resolveAfterKicksDbThenSneaks(c, now, run, o) ==
  LET result == kicksDbResults[run.normalizedSku][o]
  IN  [cache |-> c,
       run |-> [run EXCEPT !.pc = "sneaks",
                           !.log = @ \o <<IF result # <<>> THEN "result" ELSE "null",
                                          "sneaks">>]]

\* resolve once KicksDB has settled with the answer o
resolveAfterKicksDb(c, now, run, o) ==
  LET result == kicksDbResults[run.normalizedSku][o]
  IN  IF result # <<>>
        THEN resolveFinish(c, now,
                           [run EXCEPT !.log = @ \o <<"result">>, !.result = result],
                           result[1], kicksDbNormalized[run.normalizedSku][o])
      ELSE [cache |-> c,
            run |-> [run EXCEPT !.pc = "sneaks", !.log = @ \o <<"null", "sneaks">>]]

\* resolve once Sneaks has settled with the answer o.  When a callback of the
\* adapter throws, the promise is rejected if the library called back inside
\* the executor (resolve then throws) and is never settled otherwise (resolve
\* then never returns): sync says which
resolveAfterSneaks(c, now, run, o, sync) ==
  LET settled == sneaksResults[run.normalizedSku][o]
  IN  IF settled.status = "throws"
        THEN [cache |-> c,
              run |-> [run EXCEPT !.pc = IF sync THEN "threw" ELSE "hung",
                                  !.log = @ \o <<"throws">>]]
      ELSE IF settled.value # <<>>
        THEN resolveFinish(c, now,
                           [run EXCEPT !.log = @ \o <<"result">>,
                                       !.result = settled.value],
                           settled.value[1], sneaksNormalized[run.normalizedSku][o])
      ELSE [cache |-> c,
            run |-> [run EXCEPT !.pc = "returned",
                                !.log = @ \o <<"null">>,
                                !.response = <<MissResponse(run.sku,
                                     run.classification, run.startTime, now)>>]]


(***************************************************************************)
(* Requests.  A slot is the record [pc, route, input, ocr, run, reply]:    *)
(* pc is "idle", "kicksdb" or "sneaks" (resolve awaits that adapter),      *)
(* "done" (the handler has replied) or "hung" (it awaits a promise that    *)
(* never settles); ocr is <<ocrResult>> on the OCR routes; run is <<run>>  *)
(* once resolve has been called; reply is <<[status, body]>> once done.    *)
(***************************************************************************)
Idle ==
  [pc |-> "idle", route |-> "none", input |-> <<>>, ocr |-> <<>>, run |-> <<>>,
   reply |-> <<>>]

Reply(status, body) == <<[status |-> status, body |-> body]>>

\* the reply of a route whose call of resolve has returned or thrown
RouteReply(route, ocr, run) ==
  IF route = "direct"
    THEN IF run.pc = "threw" THEN Reply("thrown", [success |-> FALSE])
         ELSE Reply("returned", run.response[1])
  ELSE IF route \in {"POST /resolve", "GET /resolve/:sku"}
    THEN IF run.pc = "threw"
           THEN Reply("500", [success |-> FALSE, error |-> "Resolution failed"])
         ELSE Reply("200", run.response[1])
  ELSE IF route = "POST /ocr"
    THEN IF run.pc = "threw"
           THEN Reply("500", [success |-> FALSE, error |-> "OCR processing failed"])
         ELSE Reply("200",
                [success |-> TRUE, ocr |-> ocr[1],
                 resolved |-> IF run.response[1].success THEN run.response ELSE <<>>])
  ELSE IF run.pc = "threw"
    THEN Reply("500", [success |-> FALSE, error |-> "Scan processing failed"])
  ELSE LET res == run.response[1]
       IN  Reply("200",
             [success |-> res.success, sku |-> ocr[1].extracted.sku,
              us_size |-> ocr[1].extracted.us_size,
              brand_hint |-> ocr[1].extracted.brand_hint,
              resolved |-> IF res.success THEN <<res.resolved>> ELSE <<>>,
              confidence |-> IF res.success THEN <<res.confidence>> ELSE <<>>,
              source |-> IF res.success THEN <<res.source>> ELSE <<>>,
              raw_text |-> ocr[1].raw_text])

\* the slot after a step of resolve has left the run as it is in step.run
Advance(slot, run) ==
  IF run.pc \in {"returned", "threw"}
    THEN [slot EXCEPT !.pc = "done", !.run = <<run>>,
                      !.reply = RouteReply(slot.route, slot.ocr, run)]
  ELSE [slot EXCEPT !.pc = run.pc, !.run = <<run>>]

(***************************************************************************)
(* Scenarios.  A scenario e bounds what the environment does: the slots    *)
(* requests arrive on (e.slots), how many arrive (e.calls), what they      *)
(* carry (e.queries, e.skus, e.ocrCalls), what the providers answer        *)
(* (e.kicks, e.sneaks) and how far the clock runs (e.short, e.long).       *)
(***************************************************************************)
\* a new request takes the first slot whose handler has replied
Free(r, e) ==
  /\ calls < e.calls
  /\ req[r].pc \in {"idle", "done"}
  /\ \A q \in e.slots : q < r => req[q].pc \notin {"idle", "done"}

\* the handler calls resolve(sku)
Enter(r, route, input, ocr, step) ==
  /\ cache' = step.cache
  /\ req' = [req EXCEPT ![r] =
               Advance([Idle EXCEPT !.route = route, !.input = input,
                                    !.ocr = ocr], step.run)]

CallResolve(r, route, input, ocr, sku) ==
  Enter(r, route, input, ocr, resolveBegin(cache, Now, sku))

\* the handler replies without calling resolve
ReplyNow(r, route, input, ocr, status, body) ==
  /\ req' = [req EXCEPT ![r] =
               [Idle EXCEPT !.pc = "done", !.route = route, !.input = input,
                            !.ocr = ocr, !.reply = Reply(status, body)]]
  /\ UNCHANGED cache

\* the handlers of POST /resolve and GET /resolve/:sku
ResolveRoute(r, e, route, query, validation) ==
  /\ Free(r, e)
  /\ calls' = calls + 1
  /\ UNCHANGED clock
  /\ IF ~validation.valid
       THEN ReplyNow(r, route, query, <<>>, "400",
                     [success |-> FALSE, error |-> validation.error])
     ELSE CallResolve(r, route, query, <<>>, validation.normalized)

PostResolve(r, e) ==
  \E query \in e.queries :
    ResolveRoute(r, e, "POST /resolve", query, validations[query])

GetResolve(r, e) ==
  \E query \in e.queries :
    ResolveRoute(r, e, "GET /resolve/:sku", query, validations[query])

\* a direct call of the exported resolve
Resolve(r, e) ==
  \E sku \in e.skus :
    /\ Free(r, e)
    /\ calls' = calls + 1
    /\ UNCHANGED clock
    /\ CallResolve(r, "direct", sku, <<>>, sku)

\* the handlers of POST /ocr and POST /scan, up to the call of resolve.  A
\* handler reads nothing of the cache or the clock before the Vision call
\* answers, so the steps before and after that await are taken as one
OcrRoute(r, e, configured, validation, auto_resolve, ocrResult) ==
  /\ Free(r, e)
  /\ calls' = calls + 1
  /\ UNCHANGED clock
  /\ LET route == "POST /ocr"
     IN  IF ~configured
           THEN ReplyNow(r, route, <<>>, <<>>, "503",
                         [success |-> FALSE, error |-> "OCR service not configured"])
         ELSE IF ~validation.valid
           THEN ReplyNow(r, route, <<>>, <<>>, "400",
                         [success |-> FALSE, error |-> validation.error])
         ELSE IF ~ocrResult.success
           THEN ReplyNow(r, route, <<>>, <<ocrResult>>, "400", ocrResult)
         ELSE IF auto_resolve /\ Truthy(ocrResult.extracted.sku)
           THEN CallResolve(r, route, ocrResult.raw_text, <<ocrResult>>,
                            ocrResult.extracted.sku)
         ELSE ReplyNow(r, route, ocrResult.raw_text, <<ocrResult>>, "200", ocrResult)

PostOcr(r, e) ==
  \E c \in e.ocrCalls, auto_resolve \in BOOLEAN :
    OcrRoute(r, e, c.configured, validateImageData(c.image), auto_resolve,
             ocrResults[c.o])

ScanRoute(r, e, configured, validation, ocrResult) ==
  /\ Free(r, e)
  /\ calls' = calls + 1
  /\ UNCHANGED clock
  /\ LET route == "POST /scan"
     IN  IF ~configured
           THEN ReplyNow(r, route, <<>>, <<>>, "503",
                         [success |-> FALSE, error |-> "OCR service not configured"])
         ELSE IF ~validation.valid
           THEN ReplyNow(r, route, <<>>, <<>>, "400",
                         [success |-> FALSE, error |-> validation.error])
         ELSE IF ~ocrResult.success
           THEN ReplyNow(r, route, <<>>, <<ocrResult>>, "200",
                         [success |-> FALSE, step_failed |-> "ocr",
                          error |-> ocrResult.error])
         ELSE IF ~Truthy(ocrResult.extracted.sku)
           THEN ReplyNow(r, route, ocrResult.raw_text, <<ocrResult>>, "200",
                         [success |-> FALSE, step_failed |-> "sku_extraction",
                          error |-> "No SKU detected in image",
                          raw_text |-> ocrResult.raw_text,
                          us_size |-> ocrResult.extracted.us_size])
         ELSE CallResolve(r, route, ocrResult.raw_text, <<ocrResult>>,
                          ocrResult.extracted.sku)

PostScan(r, e) ==
  \E c \in e.ocrCalls :
    ScanRoute(r, e, c.configured, validateImageData(c.image), ocrResults[c.o])

\* resolve has run on from an await and left step
Continue(r, step) ==
  /\ cache' = step.cache
  /\ req' = [req EXCEPT ![r] = Advance(req[r], step.run)]

\* the promise of resolveWithKicksDb settles and resolve runs on
KicksDbSettles(r, e) ==
  \E o \in e.kicks :
    /\ req[r].pc = "kicksdb"
    /\ Continue(r, resolveAfterKicksDb(cache, Now, req[r].run[1], o))
    /\ UNCHANGED <<clock, calls>>

\* the promise of resolveWithSneaks settles, or a callback throws, and
\* resolve runs on
SneaksSettles(r, e) ==
  \E o \in e.sneaks, sync \in BOOLEAN :
    /\ req[r].pc = "sneaks"
    /\ Continue(r, resolveAfterSneaks(cache, Now, req[r].run[1], o, sync))
    /\ UNCHANGED <<clock, calls>>

\* a millisecond passes
TickShort(e) ==
  /\ clock.short < e.short
  /\ clock' = [clock EXCEPT !.short = @ + 1]
  /\ UNCHANGED <<cache, req, calls>>

\* a millisecond less than the time to live passes
TickLong(e) ==
  /\ clock.long < e.long
  /\ clock' = [clock EXCEPT !.long = @ + 1]
  /\ UNCHANGED <<cache, req, calls>>

Init ==
  /\ cache = <<>>
  /\ clock = [long |-> 0, short |-> 0]
  /\ req = [r \in Requests |-> Idle]
  /\ calls = 0

(***************************************************************************)
(* The pipeline: requests of every kind, one at a time, every answer of    *)
(* the providers, within a few milliseconds                                *)
(***************************************************************************)
Pipeline ==
  [slots |-> {1}, calls |-> MaxCalls, queries |-> Queries, skus |-> DirectSkus,
   ocrCalls |-> OcrCalls, kicks |-> KicksOutcomes, sneaks |-> SneaksOutcomes,
   short |-> MaxShortTicks, long |-> 0]

Next ==
  \/ \E r \in Pipeline.slots : PostResolve(r, Pipeline)
  \/ \E r \in Pipeline.slots : GetResolve(r, Pipeline)
  \/ \E r \in Pipeline.slots : Resolve(r, Pipeline)
  \/ \E r \in Pipeline.slots : PostOcr(r, Pipeline)
  \/ \E r \in Pipeline.slots : PostScan(r, Pipeline)
  \/ \E r \in Pipeline.slots : KicksDbSettles(r, Pipeline)
  \/ \E r \in Pipeline.slots : SneaksSettles(r, Pipeline)
  \/ TickShort(Pipeline)

Spec == Init /\ [][Next]_vars

TypeOK ==
  /\ calls \in 0..(MaxTtlCalls + 1)
  /\ \A r \in Requests : req[r].pc \in {"idle", "kicksdb", "sneaks", "done", "hung"}

(***************************************************************************)
(* Expiry: one identifier resolved again and again while the clock runs    *)
(* up to and past the time to live                                         *)
(***************************************************************************)
Expiry ==
  [slots |-> {1}, calls |-> MaxTtlCalls, queries |-> {Str("dd1391-100")},
   skus |-> {}, ocrCalls |-> {},
   kicks |-> {o \in KicksOutcomes :
                o.kind = "ok" /\ (o.items = <<>> \/ o.items[1].sku = Str("DD1391-100"))},
   sneaks |-> {o \in SneaksOutcomes : o.pricesErr /\ o.searchErr},
   short |-> MaxShortTicks, long |-> MaxLongTicks]

NextTtl ==
  \/ \E r \in Expiry.slots : PostResolve(r, Expiry)
  \/ \E r \in Expiry.slots : KicksDbSettles(r, Expiry)
  \/ \E r \in Expiry.slots : SneaksSettles(r, Expiry)
  \/ TickShort(Expiry)
  \/ TickLong(Expiry)

SpecTtl == Init /\ [][NextTtl]_vars

(***************************************************************************)
(* Properties                                                              *)
(***************************************************************************)
Range(f) == {f[x] : x \in DOMAIN f}

HasRun(r) == req[r].run # <<>>

Run(r) == req[r].run[1]

Returned(r) == HasRun(r) /\ Run(r).response # <<>>

Response(r) == Run(r).response[1]

\* the Map c holds an entry for key that is younger than the time to live
HoldsFresh(c, now, key) ==
  /\ key \in DOMAIN c
  /\ BCmp(BSub(now, c[key].timestamp), ttlMs) < 0

\* request r starts in this step and its handler calls resolve
Starts(r) == calls' = calls + 1 /\ req'[r] # req[r] /\ req'[r].run # <<>>

\* C1: a call of resolve that finds a fresh entry under its normalized
\* identifier returns at once with success = true and source "cache", a
\* confidence scored with fromCache = true and exactSkuMatch = true, without
\* calling KicksDB or Sneaks and without writing the cache
C1_HitServedFromCache ==
  [][\A r \in Requests :
       (Starts(r) /\ HoldsFresh(cache, Now, req'[r].run[1].normalizedSku)) =>
         LET run  == req'[r].run[1]
             data == cache[run.normalizedSku].data
         IN  /\ run.pc = "returned"
             /\ run.log = <<"classify", "cache">>
             /\ run.response[1].success
             /\ run.response[1].source = "cache"
             /\ run.response[1].confidence =
                  roundedConfidences[confidences[
                    [patternConfidence |-> run.classification.confidence,
                     source |-> "cache", exactSkuMatch |-> TRUE,
                     hasBrand |-> Truthy(data.brand), hasModel |-> Truthy(data.model),
                     hasColorway |-> Truthy(data.colorway), fromCache |-> TRUE]]]
             /\ cache' = cache]_vars

\* a request was answered from the cache
C1_Witness ==
  \E r \in Requests :
    /\ Returned(r)
    /\ Run(r).log = <<"classify", "cache">>
    /\ Response(r).source = "cache"
    /\ Run(r).normalizedSku \in DOMAIN cache

\* the result and the normalized record adapter found for key on answer o
AdapterGave(results, normalized, key, o, res) ==
  /\ results # <<>>
  /\ normalized # <<>>
  /\ res.source = results[1].source
  /\ res.resolved = ResolvedOf(normalized[1])

\* C2: on a miss resolve calls KicksDB third, after classification and the
\* cache lookup, and Sneaks only right after KicksDB returned null; a response
\* answered by an adapter carries the source and the record of one adapter's
\* result, the one called last
C2_AdaptersInOrder ==
  \A r \in Requests :
    HasRun(r) =>
      LET run == Run(r)
          log == run.log
          key == run.normalizedSku
      IN  /\ SubSeq(log, 1, 2) = <<"classify", "cache">>
          /\ \A i \in 1..Len(log) : log[i] = "kicksdb" => i = 3
          /\ \A i \in 1..Len(log) :
               log[i] = "sneaks" => i = 5 /\ log[3] = "kicksdb" /\ log[4] = "null"
          /\ (run.response # <<>> /\ "kicksdb" \in Range(log)) =>
               IF ~run.response[1].success
                 THEN SubSeq(log, 3, Len(log)) = <<"kicksdb", "null", "sneaks", "null">>
               ELSE IF "sneaks" \in Range(log)
                 THEN \E o \in SneaksOutcomes :
                        AdapterGave(sneaksResults[key][o].value,
                                    sneaksNormalized[key][o], key, o, run.response[1])
               ELSE \E o \in KicksOutcomes :
                      AdapterGave(kicksDbResults[key][o], kicksDbNormalized[key][o],
                                  key, o, run.response[1])

\* Sneaks answered after KicksDB had nothing
C2_Witness ==
  \E r \in Requests :
    /\ Returned(r)
    /\ Response(r).success
    /\ Response(r).source = "sneaks"
    /\ SubSeq(Run(r).log, 3, 6) = <<"kicksdb", "null", "sneaks", "result">>

\* the score of what an adapter found
ScoreOf(classification, result, normalized) ==
  confidences[
    [patternConfidence |-> classification.confidence, source |-> result.source,
     exactSkuMatch |-> result.exactMatch, hasBrand |-> Truthy(normalized.brand),
     hasModel |-> Truthy(normalized.model),
     hasColorway |-> Truthy(normalized.colorway), fromCache |-> FALSE]]

\* res answers with what the adapter found, scored below the threshold
LowScored(results, normalized, run, res) ==
  /\ results # <<>>
  /\ normalized # <<>>
  /\ res.source = results[1].source
  /\ res.resolved = ResolvedOf(normalized[1])
  /\ ~DGe(ScoreOf(run.classification, results[1], normalized[1]), Dec(5, 10))
  /\ res.confidence =
       roundedConfidences[ScoreOf(run.classification, results[1], normalized[1])]

\* the Map after is the Map before with one entry written under key at now,
\* holding the record of res and a confidence of at least 0.5
WroteEntry(before, after, key, now, res) ==
  /\ key \in DOMAIN after
  /\ after[key].timestamp = now
  /\ ResolvedOf(after[key].data) = res.resolved
  /\ after[key].data.source = res.source
  /\ DGe(after[key].data.confidence, Dec(5, 10))
  /\ roundedConfidences[after[key].data.confidence] = res.confidence
  /\ DOMAIN after = DOMAIN before \cup {key}
  /\ \A k \in DOMAIN before : k # key => after[k] = before[k]

\* resolve returns in this step for request r with what an adapter found
AnsweredBySource(r) ==
  /\ req[r].pc \in {"kicksdb", "sneaks"}
  /\ req'[r].run[1].pc = "returned"
  /\ "result" \in Range(req'[r].run[1].log)

\* some answer of the adapter called last gives res with a score below 0.5
LowScoredBySome(run, res) ==
  IF "sneaks" \in Range(run.log)
    THEN \E o \in SneaksOutcomes :
           LowScored(sneaksResults[run.normalizedSku][o].value,
                     sneaksNormalized[run.normalizedSku][o], run, res)
  ELSE \E o \in KicksOutcomes :
         LowScored(kicksDbResults[run.normalizedSku][o],
                   kicksDbNormalized[run.normalizedSku][o], run, res)

\* C3: a result scored below 0.5 is returned as a success and leaves the
\* cache as it was; the cache is written only with a result scored at least
\* 0.5, so every entry carries a confidence of at least 0.5 and the name of
\* the adapter that found it
C3_CachingGate ==
  [][/\ \A k \in DOMAIN cache' :
          /\ DGe(cache'[k].data.confidence, Dec(5, 10))
          /\ cache'[k].data.source \in {"kicksdb", "sneaks"}
     /\ \A r \in Requests :
          AnsweredBySource(r) =>
            LET run == req'[r].run[1]
            IN  /\ run.response[1].success
                /\ cache' # cache =>
                     WroteEntry(cache, cache', run.normalizedSku, Now, run.response[1])
                /\ LowScoredBySome(run, run.response[1]) =>
                     cache' = cache /\ "setCache" \notin Range(run.log)]_vars

\* a result was returned as a success and not cached, beside a cached one
C3_Witness ==
  \E r \in Requests :
    /\ Returned(r)
    /\ Response(r).success
    /\ Response(r).source \in {"kicksdb", "sneaks"}
    /\ "setCache" \notin Range(Run(r).log)
    /\ Run(r).normalizedSku \notin DOMAIN cache
    /\ DOMAIN cache # {}

\* resolve returns in this step for request r after both adapters gave null
TotalMiss(r) ==
  /\ req[r].pc = "sneaks"
  /\ req'[r].run[1].log =
       <<"classify", "cache", "kicksdb", "null", "sneaks", "null">>

\* C4: when the cache misses and KicksDB and Sneaks both return null, resolve
\* returns success = false with the error "No match found", the classification
\* and the elapsed time, no resolved record and no confidence, and leaves the
\* cache as it was
C4_TotalMiss ==
  [][\A r \in Requests :
       TotalMiss(r) =>
         LET run == req'[r].run[1]
         IN  /\ run.pc = "returned"
             /\ run.response # <<>>
             /\ DOMAIN run.response[1] =
                  {"success", "input", "error", "classification", "timing"}
             /\ ~run.response[1].success
             /\ run.response[1].error = "No match found"
             /\ run.response[1].classification = classifySku(run.sku)
             /\ run.response[1].timing = BSub(Now, req[r].run[1].startTime)
             /\ cache' = cache]_vars

\* a request ended in "No match found"
C4_Witness ==
  \E r \in Requests :
    /\ Returned(r)
    /\ ~Response(r).success
    /\ Response(r).error = "No match found"
    /\ Run(r).log = <<"classify", "cache", "kicksdb", "null", "sneaks", "null">>

\* C5: a failure inside an adapter, a malformed payload or an exception
\* raised while the provider's answer is handled included, becomes a null
\* result: no call of resolve throws or is left waiting because of it
C5_AdapterFailuresBecomeNull ==
  \A r \in Requests :
    HasRun(r) =>
      /\ Run(r).pc \notin {"threw", "hung"}
      /\ "throws" \notin Range(Run(r).log)

\* C6: a call of resolve whose normalized identifier is empty fails with a
\* validation error other than "No match found" before it looks the cache up
\* or calls an adapter
C6_EmptyIdentifierShortCircuits ==
  \A r \in Requests :
    (HasRun(r) /\ Run(r).normalizedSku = <<>>) =>
      /\ Run(r).log = <<"classify">>
      /\ Run(r).response # <<>>
      /\ ~Response(r).success
      /\ Response(r).error # "No match found"

(***************************************************************************)
(* validateSkuQuery on its own: a query is drawn, then validated           *)
(***************************************************************************)
ValidateCores ==
  {Str("abcd"), Str("abc"), Str("ab"), Str("a-b"), Str("AB-12"), Str("1234"),
   Str("12345"), Str("123456"), Str("1234567"), Str("12 34"), Str("12-34"),
   Str("ab_cd"), Str("ab!cd"), Str("ab.cd"), Str("dd1391-100"), Str("ab\tcd"),
   Str("ab\ncd"), Str("a  b"), Str("abcdefghij0123456789"),
   Str("abcdefghij0123456789x"), Str("abcdefghij 123456789"), <<>>}

\* each core as it is, after a space and before a tab, and a query that is no
\* string
ValidateProbes ==
  ValidateCores \cup {<<" ">> \o q : q \in ValidateCores}
    \cup {q \o <<"\t">> : q \in ValidateCores} \cup {NOTSTR}

InitValidate ==
  /\ cache = <<>>
  /\ clock = [long |-> 0, short |-> 0]
  /\ calls = 0
  /\ \E q \in ValidateProbes :
       req = [r \in Requests |->
                IF r = 1
                  THEN [Idle EXCEPT !.route = "validateSkuQuery", !.input = q]
                ELSE Idle]

Validate ==
  /\ req[1].pc = "idle"
  /\ req[1].route = "validateSkuQuery"
  /\ req' = [req EXCEPT ![1].pc = "done",
                        ![1].reply = Reply("returned", validateSkuQuery(req[1].input))]
  /\ UNCHANGED <<cache, clock, calls>>

NextValidate == Validate

SpecValidate == InitValidate /\ [][NextValidate]_vars

Validated(r) == req[r].pc = "done" /\ req[r].route = "validateSkuQuery"

\* the characters between the first and the last one of q that is no
\* whitespace
Core(q) ==
  LET inked == {i \in 1..Len(q) : q[i] \notin {" ", "\t", "\n", "\r"}}
  IN  IF inked = {} THEN <<>>
      ELSE SubSeq(q, CHOOSE i \in inked : \A j \in inked : i <= j,
                     CHOOSE i \in inked : \A j \in inked : j <= i)

OnlyOf(t, cs) == \A i \in 1..Len(t) : t[i] \in cs

\* C7 as stated: a query is accepted if and only if, trimmed, it has 4 to 20
\* characters, all of them letters, digits, hyphens or spaces
C7_AcceptsIffLengthAndCharset ==
  \A r \in Requests :
    Validated(r) =>
      (req[r].reply[1].body.valid <=>
         /\ IsString(req[r].input)
         /\ Len(Core(req[r].input)) \in 4..20
         /\ OnlyOf(Core(req[r].input), Upper \cup Lower \cup Digit \cup {"-", " "}))

\* C7 as the code has it: a query is accepted if and only if it is a string
\* that, trimmed, has 4 to 20 characters, all of them letters, digits, hyphens
\* or whitespace (tab and newline included), and is not a run of fewer than 6
\* digits; every other query is rejected with an error
C7_AcceptsUnlessShortDigits ==
  \A r \in Requests :
    Validated(r) =>
      /\ req[r].reply[1].body.valid <=>
           /\ IsString(req[r].input)
           /\ Len(Core(req[r].input)) \in 4..20
           /\ OnlyOf(Core(req[r].input),
                     Upper \cup Lower \cup Digit \cup {"-", " ", "\t", "\n", "\r"})
           /\ ~(OnlyOf(Core(req[r].input), Digit) /\ Len(Core(req[r].input)) < 6)
      /\ ~req[r].reply[1].body.valid => "error" \in DOMAIN req[r].reply[1].body

\* a run of five digits was rejected
C7_Witness ==
  \E r \in Requests :
    /\ Validated(r)
    /\ Core(req[r].input) = Str("12345")
    /\ ~req[r].reply[1].body.valid

\* C8: on every route that leads to resolve, an identifier that fails
\* validateSkuQuery is rejected before it is classified: resolve is never
\* called with it, so nothing is looked up, asked of an adapter or cached
C8_InvalidNeverResolved ==
  \A r \in Requests :
    (HasRun(r) /\ req[r].route \in {"POST /resolve", "GET /resolve/:sku",
                                    "POST /ocr", "POST /scan"}) =>
      validateSkuQuery(Run(r).sku).valid

\* request r starts in this step and resolve looks up a key the Map holds
LooksUp(r) == Starts(r) /\ req'[r].run[1].normalizedSku \in DOMAIN cache

\* the age, at the lookup, of the entry request r looks up in this step
AgeAtLookup(r) == BSub(Now, cache[req'[r].run[1].normalizedSku].timestamp)

\* the lookup of request r in this step returns the entry and leaves the Map
ServedEntry(r) ==
  /\ req'[r].run[1].log = <<"classify", "cache">>
  /\ req'[r].run[1].response # <<>>
  /\ req'[r].run[1].response[1].source = "cache"
  /\ cache' = cache

\* the lookup of request r in this step goes on as after a miss
TreatedAsAbsent(r) ==
  /\ req'[r].run[1].log = <<"classify", "cache", "kicksdb">>
  /\ req'[r].run[1].pc = "kicksdb"
  /\ req'[r].run[1].response = <<>>

\* C9 as stated: an entry written at T is returned at every time t with
\* t - T <= TTL and treated as absent once t - T > TTL
C9_ServedUpToTtl ==
  [][\A r \in Requests :
       LooksUp(r) =>
         IF BCmp(AgeAtLookup(r), ttlMs) <= 0
           THEN ServedEntry(r) ELSE TreatedAsAbsent(r)]_vars

\* C9 as the code has it: an entry written at T is returned at every time t
\* with t - T < TTL, so at T + TTL - 1 ms, and is treated as absent, as after
\* a miss, once t - T >= TTL, so at T + TTL and at T + TTL + 1 ms
C9_ServedBelowTtl ==
  [][\A r \in Requests :
       LooksUp(r) =>
         IF BCmp(AgeAtLookup(r), ttlMs) < 0
           THEN ServedEntry(r) ELSE TreatedAsAbsent(r)]_vars

\* an entry was served one millisecond before its time to live ran out
C9_Witness ==
  \E r \in Requests :
    /\ Returned(r)
    /\ Run(r).log = <<"classify", "cache">>
    /\ Run(r).normalizedSku \in DOMAIN cache
    /\ BAdd(BSub(Run(r).startTime, cache[Run(r).normalizedSku].timestamp),
            BFromInt(1)) = ttlMs

\* C10: a lookup that returns an entry touches it: the entry counts its
\* accesses in accessCount and holds the time of the last one in accessedAt
C10_HitTouchesEntry ==
  \A r \in Requests :
    (Returned(r) /\ Run(r).log = <<"classify", "cache">>
       /\ Run(r).normalizedSku \in DOMAIN cache) =>
      /\ "accessCount" \in DOMAIN cache[Run(r).normalizedSku]
      /\ "accessedAt" \in DOMAIN cache[Run(r).normalizedSku]
      /\ cache[Run(r).normalizedSku].accessCount >= 1
      /\ cache[Run(r).normalizedSku].accessedAt = Run(r).startTime

\* C11: a write stores the record under its key with an access count one more
\* than the key had before, 1 for a key the Map did not hold
C11_SetCountsUp ==
  [][\A r \in Requests :
       (HasRun(r) /\ req'[r].run # <<>>
          /\ "setCache" \notin Range(req[r].run[1].log)
          /\ "setCache" \in Range(req'[r].run[1].log)
          /\ req'[r].run[1].normalizedSku \in DOMAIN cache') =>
         LET key == req'[r].run[1].normalizedSku
         IN  /\ ResolvedOf(cache'[key].data) = req'[r].run[1].response[1].resolved
             /\ "accessCount" \in DOMAIN cache'[key]
             /\ cache'[key].accessCount =
                  IF key \in DOMAIN cache /\ "accessCount" \in DOMAIN cache[key]
                    THEN cache[key].accessCount + 1 ELSE 1]_vars

(***************************************************************************)
(* calculateConfidence on its own: its arguments are drawn, then scored    *)
(***************************************************************************)
InitScore ==
  /\ cache = <<>>
  /\ clock = [long |-> 0, short |-> 0]
  /\ calls = 0
  /\ \E in \in ScorerInputs :
       req = [r \in Requests |->
                IF r = 1
                  THEN [Idle EXCEPT !.route = "calculateConfidence", !.input = in]
                ELSE Idle]

Score ==
  /\ req[1].pc = "idle"
  /\ req[1].route = "calculateConfidence"
  /\ req' = [req EXCEPT ![1].pc = "done",
                        ![1].reply = Reply("returned", calculateConfidence(req[1].input))]
  /\ UNCHANGED <<cache, clock, calls>>

NextScore == Score

SpecScore == InitScore /\ [][NextScore]_vars

Scored(r) == req[r].pc = "done" /\ req[r].route = "calculateConfidence"

ScorerFlags == {"exactSkuMatch", "hasBrand", "hasModel", "hasColorway", "fromCache"}

\* C12: the score lies in [0, 1], and turning one of exactSkuMatch, hasBrand,
\* hasModel, hasColorway, fromCache from false to true, the other arguments
\* kept, never lowers it
C12_ScoreBoundedMonotonic ==
  \A r \in Requests :
    Scored(r) =>
      /\ BCmp(req[r].reply[1].body, DZero) >= 0
      /\ BCmp(req[r].reply[1].body, DOne) <= 0
      /\ \A f \in ScorerFlags :
           ~req[r].input[f] =>
             BCmp(calculateConfidence([req[r].input EXCEPT ![f] = TRUE]),
                  req[r].reply[1].body) >= 0

\* a score that the exact match raises, up to the bound 1
C12_Witness ==
  \E r \in Requests :
    /\ Scored(r)
    /\ ~req[r].input.exactSkuMatch
    /\ BCmp(calculateConfidence([req[r].input EXCEPT !.exactSkuMatch = TRUE]),
            req[r].reply[1].body) > 0
    /\ calculateConfidence([req[r].input EXCEPT !.exactSkuMatch = TRUE]) = DOne

\* the call of resolve for request r found nothing for "ZZ0000-000"
NoMatchForZZ(r) ==
  /\ Returned(r)
  /\ Run(r).sku = Str("ZZ0000-000")
  /\ Run(r).log = <<"classify", "cache", "kicksdb", "null", "sneaks", "null">>

\* C13 as stated: resolving "ZZ0000-000" when no adapter has a match gives
\* success = false, "No match found" and a classification of brand Unknown
C13_NoMatchUnknownBrand ==
  \A r \in Requests :
    NoMatchForZZ(r) =>
      /\ ~Response(r).success
      /\ Response(r).error = "No match found"
      /\ Response(r).classification.brand = "Unknown"

\* C13 as the code has it: resolving "ZZ0000-000" when no adapter has a match
\* gives success = false, "No match found" and the classification Nike with
\* pattern confidence 0.95, the identifier being two letters, four digits, a
\* hyphen and three digits
C13_NoMatchNikeFormat ==
  \A r \in Requests :
    NoMatchForZZ(r) =>
      /\ ~Response(r).success
      /\ Response(r).error = "No match found"
      /\ Response(r).classification.brand = "Nike"
      /\ Response(r).classification.confidence = Dec(95, 100)
      /\ Response(r).classification.normalized = Str("ZZ0000-000")

\* "ZZ0000-000" was resolved and nothing was found
C13_Witness == \E r \in Requests : NoMatchForZZ(r) /\ req[r].reply # <<>>

\* KicksDB answered request r's "dd1391-100" with the exact item named
\* "Nike Dunk Low Retro White Black Panda"
PandaFromKicksDb(r) ==
  /\ Returned(r)
  /\ req[r].input = Str("dd1391-100")
  /\ Response(r).success
  /\ Response(r).source = "kicksdb"
  /\ Response(r).resolved.name = Str("Nike Dunk Low Retro White Black Panda")

\* C14: resolving "dd1391-100" on an empty cache, KicksDB returning the exact
\* match named "Nike Dunk Low Retro White Black Panda" without model or
\* colorway, classifies as Nike with pattern confidence 0.95 and normalized
\* "DD1391-100", yields brand Nike, model "Dunk Low", colorway "Panda",
\* category "sneakers", and writes the result to the cache
C14_PandaScenario ==
  \A r \in Requests :
    PandaFromKicksDb(r) =>
      /\ Response(r).classification =
           [brand |-> "Nike", confidence |-> Dec(95, 100),
            normalized |-> Str("DD1391-100")]
      /\ Response(r).resolved.brand = Str("Nike")
      /\ Response(r).resolved.model = Str("Dunk Low")
      /\ Response(r).resolved.colorway = Str("Panda")
      /\ Response(r).resolved.category = Str("sneakers")
      /\ Str("DD1391-100") \in DOMAIN cache

\* C15: a response of resolve carries classification, input and timing,
\* and besides them confidence, resolved and source when success is true and
\* error when success is false
C15_ResponseShape ==
  \A r \in Requests :
    Returned(r) =>
      /\ "success" \in DOMAIN Response(r)
      /\ DOMAIN Response(r) =
           {"success", "input", "classification", "timing"}
             \cup (IF Response(r).success
                     THEN {"confidence", "resolved", "source"} ELSE {"error"})

\* a failure was returned after a success had been cached
C15_Witness ==
  \E r \in Requests :
    /\ Returned(r)
    /\ ~Response(r).success
    /\ DOMAIN Response(r) = {"success", "input", "classification", "timing", "error"}
    /\ DOMAIN cache # {}

\* C16: the result an adapter returns has exactMatch = true only if the
\* identifier the provider returned equals the identifier asked for, letter
\* case aside
C16_ExactMatchMeansSameId ==
  \A r \in Requests :
    (HasRun(r) /\ Run(r).result # <<>> /\ Run(r).result[1].exactMatch) =>
      /\ IsString(Run(r).result[1].sku)
      /\ ToUpperCase(Run(r).result[1].sku) = ToUpperCase(Run(r).normalizedSku)

(***************************************************************************)
(* Concurrency: two requests for one identifier, their awaits interleaved  *)
(***************************************************************************)
Concurrent ==
  [slots |-> {1, 2}, calls |-> MaxCalls, queries |-> {Str("dd1391-100")},
   skus |-> {}, ocrCalls |-> {},
   kicks |-> {o \in KicksOutcomes :
                o.kind = "ok" /\ (o.items = <<>> \/ o.items[1].sku = Str("DD1391-100"))},
   sneaks |-> {o \in SneaksOutcomes :
                 (o.pricesErr /\ o.searchErr)
                   \/ (o.product # <<>> /\ IsString(o.product[1].shoeName))},
   short |-> MaxShortTicks, long |-> 0]

NextConcurrent ==
  \/ \E r \in Concurrent.slots : PostResolve(r, Concurrent)
  \/ \E r \in Concurrent.slots : KicksDbSettles(r, Concurrent)
  \/ \E r \in Concurrent.slots : SneaksSettles(r, Concurrent)
  \/ TickShort(Concurrent)

SpecConcurrent == Init /\ [][NextConcurrent]_vars

\* a response with the fields of its kind
WellFormed(res) ==
  /\ "success" \in DOMAIN res
  /\ DOMAIN res =
       {"success", "input", "classification", "timing"}
         \cup (IF res.success THEN {"confidence", "resolved", "source"} ELSE {"error"})

\* C17: however the steps of concurrent calls of resolve for one identifier
\* interleave, the cache holds at most one entry for it, every change of the
\* cache is the whole record of the call that returns in that step, and every
\* response is well formed
C17_WholeEntryPerWrite ==
  [][/\ Cardinality(DOMAIN cache') <= 1
     /\ cache' # cache =>
          \E r \in Requests :
            /\ AnsweredBySource(r)
            /\ WroteEntry(cache, cache', req'[r].run[1].normalizedSku, Now,
                          req'[r].run[1].response[1])
     /\ \A r \in Requests :
          (req'[r].run # <<>> /\ req'[r].run[1].response # <<>>) =>
            WellFormed(req'[r].run[1].response[1])]_vars

\* both calls missed the cache, asked KicksDB and wrote the cache, one with
\* the record of KicksDB and one with the record of Sneaks
C17_Witness ==
  /\ \A r \in {1, 2} :
       /\ Returned(r)
       /\ "kicksdb" \in Range(Run(r).log)
       /\ "setCache" \in Range(Run(r).log)
  /\ Response(1).source # Response(2).source
  /\ Run(1).startTime = Run(2).startTime

(***************************************************************************)
(* classifySku on its own: an identifier is drawn, then classified         *)
(***************************************************************************)
\* identifiers of every format the rules name, with every prefix the Jordan
\* and Yeezy patterns list, and some of no format
ClassifyProbes ==
  {JordanPrefixes[n] \o Str("1391-100") : n \in 1..Len(JordanPrefixes)}
    \cup {<<LowerOf[JordanPrefixes[n][1]], LowerOf[JordanPrefixes[n][2]]>>
            \o Str("1391-100") : n \in 1..Len(JordanPrefixes)}
    \cup {YeezyPrefixes[n] \o Str("1234") : n \in 1..Len(YeezyPrefixes)}
    \cup {Str("AB1234-123"), Str("123456-123"), Str("ABC123-123"), Str("AB1234"),
          Str("A12345"), Str("M990GL5"), Str("W990GL"), Str("U574AB"),
          Str("ML574EGG"), Str("123456-12"), Str("123-12345"), Str("123456C"),
          Str("A1234C"), Str("VN0A12345"), Str("1011B123"), Str("1011B123-001"),
          Str("12-34567"), Str("ABCDE"), Str("ABCDEFG-12"), Str("ZZ0000-000"),
          Str("ABCD"), Str("12345"), Str("AB"), Str(" dd 1391-100 "), Str("a_b")}

InitClassify ==
  /\ cache = <<>>
  /\ clock = [long |-> 0, short |-> 0]
  /\ calls = 0
  /\ \E sku \in ClassifyProbes :
       req = [r \in Requests |->
                IF r = 1
                  THEN [Idle EXCEPT !.route = "classifySku", !.input = sku]
                ELSE Idle]

Classify ==
  /\ req[1].pc = "idle"
  /\ req[1].route = "classifySku"
  /\ req' = [req EXCEPT ![1].pc = "done",
                        ![1].reply = Reply("returned", classifySku(req[1].input))]
  /\ UNCHANGED <<cache, clock, calls>>

NextClassify == Classify

SpecClassify == InitClassify /\ [][NextClassify]_vars

Classified(r) == req[r].pc = "done" /\ req[r].route = "classifySku"

\* C18: no brand rule is shadowed: a rule whose pattern matches the
\* identifier classified here is the rule returned for some identifier
C18_NoRuleShadowed ==
  \A r \in Requests :
    Classified(r) =>
      \A n \in 1..Len(BRAND_PATTERNS) :
        RuleMatches(BRAND_PATTERNS[n], NormalizeSku(req[r].input)) =>
          \E sku \in ClassifyProbes :
            classifySku(sku).brand = BRAND_PATTERNS[n].brand

(***************************************************************************)
(* normalizeResult on its own: a display name and the colorway field of a  *)
(* source result are drawn, then the result is normalized                  *)
(***************************************************************************)
\* names for every extraction rule alone, for rules in competition, and for
\* no rule at all
NormalizeNames ==
  { Str("Air Jordan 4 'White Oreo'"),
    Str("Air Jordan 4 Retro 'Fire Red' (2020)"),
    Str("Air Jordan 4 Retro \"Bred\" 2019"),
    Str("Air Jordan 1 Retro High OG Chicago 2015"),
    Str("Air Jordan 1 Retro High OG Chicago (2015)"),
    Str("Air Jordan 1 Retro High OG Chicago"),
    Str("Air Jordan 4 retro bred"),
    Str("Air Jordan 1 Retro High (GS) Chicago"),
    Str("Air Jordan 4 Retro (2020)"),
    Str("Air Jordan 4 (Fire Red)"),
    Str("Air Jordan 4 (Fire Red) Bred"),
    Str("Nike Dunk Low (2021) Panda"),
    Str("Nike Dunk Low (2021) (Off Noir)"),
    Str("Nike Dunk Low (Off Noir) (2021)"),
    Str("Nike Dunk Low (2021)"),
    Str("Nike Dunk Low Panda"),
    Str("Nike Dunk Low royal shadow"),
    Str("Nike Dunk Low Shadow Royal"),
    Str("Nike Air Max 90"),
    <<>> }

\* the colorway field of the source result: absent, null, empty, or a string
SourceColorways == {UNDEF, NULL, <<>>, Str("Black/White"), Str(" panda ")}

SourceResultOf(name, colorway) ==
  [brand |-> UNDEF, name |-> name, model |-> UNDEF, colorway |-> colorway,
   category |-> UNDEF]

InitNormalize ==
  /\ cache = <<>>
  /\ clock = [long |-> 0, short |-> 0]
  /\ calls = 0
  /\ \E name \in NormalizeNames, colorway \in SourceColorways :
       req = [r \in Requests |->
                IF r = 1
                  THEN [Idle EXCEPT !.route = "normalizeResult",
                                    !.input = SourceResultOf(name, colorway)]
                ELSE Idle]

Normalize ==
  /\ req[1].pc = "idle"
  /\ req[1].route = "normalizeResult"
  /\ req' = [req EXCEPT ![1].pc = "done",
                        ![1].reply = Reply("returned", normalizeResult(req[1].input))]
  /\ UNCHANGED <<cache, clock, calls>>

NextNormalize == Normalize

SpecNormalize == InitNormalize /\ [][NextNormalize]_vars

NormalizeDone(r) == req[r].pc = "done" /\ req[r].route = "normalizeResult"

\* the parenthesized substrings of a name that are not a 4-digit year
NonYearParens(name) ==
  {SubSeq(name, i + 1, j - 1) : <<i, j>> \in
     {p \in (1..Len(name)) \X (1..Len(name)) :
        /\ p[1] + 1 < p[2]
        /\ name[p[1]] = "(" /\ name[p[2]] = ")"
        /\ \A k \in (p[1] + 1)..(p[2] - 1) : name[k] \notin {"(", ")"}
        /\ ~(/\ p[2] - p[1] = 5
             /\ \A k \in (p[1] + 1)..(p[2] - 1) : name[k] \in Digit)}}

\* C19: a colorway the source supplied is kept verbatim; with none, the
\* colorway is the quoted substring of the name if it has one, else the text
\* after "Retro" up to a trailing year, else a parenthesized substring that is
\* not a 4-digit year if the name has one, else the first vocabulary name
\* occurring in the name, else null
C19_ColorwayPrecedence ==
  \A r \in Requests :
    NormalizeDone(r) =>
      LET name == req[r].input.name
          got  == req[r].reply[1].body.colorway
      IN  IF Truthy(req[r].input.colorway) THEN got = req[r].input.colorway
          ELSE IF QuoteMatch(name) # NULL THEN got = QuoteMatch(name)
          ELSE IF RetroMatch(name) # NULL THEN got = Trim(RetroMatch(name))
          ELSE IF NonYearParens(name) # {} THEN got \in NonYearParens(name)
          ELSE got = KeywordColorway(name)

(***************************************************************************)
(* Rewriting: two concurrent requests for one identifier write its entry   *)
(* one after the other, then the clock runs on and the identifier is       *)
(* resolved again                                                          *)
(***************************************************************************)
Rewrite ==
  [slots |-> {1, 2}, calls |-> MaxTtlCalls + 1, queries |-> {Str("dd1391-100")},
   skus |-> {}, ocrCalls |-> {},
   kicks |-> {o \in KicksOutcomes :
                o.kind = "ok" /\ (o.items = <<>> \/ o.items[1].sku = Str("DD1391-100"))},
   sneaks |-> {o \in SneaksOutcomes :
                 (o.pricesErr /\ o.searchErr)
                   \/ (o.product # <<>> /\ IsString(o.product[1].shoeName))},
   short |-> MaxShortTicks, long |-> MaxLongTicks]

NextRewrite ==
  \/ \E r \in Rewrite.slots : PostResolve(r, Rewrite)
  \/ \E r \in Rewrite.slots : KicksDbSettles(r, Rewrite)
  \/ \E r \in Rewrite.slots : SneaksSettles(r, Rewrite)
  \/ TickShort(Rewrite)
  \/ TickLong(Rewrite)

SpecRewrite == Init /\ [][NextRewrite]_vars

\* resolve calls setCache for request r in this step
Writes(r) ==
  /\ req[r].pc \in {"kicksdb", "sneaks"}
  /\ req'[r].run # <<>>
  /\ "setCache" \in Range(req'[r].run[1].log)
  /\ "setCache" \notin Range(req[r].run[1].log)

\* C20: every write of the cache, on a key the Map already holds as on a new
\* one, leaves the entry with the record written and the time of the write as
\* its creation time, and a lookup less than the time to live after the
\* latest write of its key is served the entry
C20_WriteResetsTtl ==
  [][\A r \in Requests :
       /\ Writes(r) =>
            LET key == req'[r].run[1].normalizedSku
            IN  /\ key \in DOMAIN cache'
                /\ cache'[key].timestamp = Now
                /\ cache'[key].data.source = req'[r].run[1].response[1].source
       /\ (LooksUp(r) /\ BCmp(AgeAtLookup(r), ttlMs) < 0) => ServedEntry(r)]_vars

\* a request was served an entry a full time to live or more after the first
\* write of its key: the entry is the record of a later write, by another
\* source, than the write of the request in the other slot
C20_Witness ==
  \E r \in Requests, a \in Requests :
    /\ r # a
    /\ Returned(r)
    /\ Run(r).log = <<"classify", "cache">>
    /\ Returned(a)
    /\ "setCache" \in Range(Run(a).log)
    /\ Run(a).normalizedSku = Run(r).normalizedSku
    /\ Run(r).normalizedSku \in DOMAIN cache
    /\ LET first  == BAdd(Run(a).startTime, Response(a).timing)
           latest == cache[Run(r).normalizedSku].timestamp
       IN  /\ BCmp(first, latest) < 0
           /\ cache[Run(r).normalizedSku].data.source # Response(a).source
           /\ BCmp(BSub(Run(r).startTime, first), ttlMs) >= 0
           /\ BCmp(BSub(Run(r).startTime, latest), ttlMs) < 0

(***************************************************************************)
(* The identifier along the pipeline: query, validator, classifier, cache  *)
(***************************************************************************)
\* the Map after setCache(sku, {}) on the empty Map
KeyedBy(sku) == setCache(<<>>, BFromInt(0), sku, [source |-> "kicksdb"])

\* C21: normalization is idempotent, in the classifier and in the cache, and
\* the identifier the validator passes on for an accepted query is the one
\* the classifier normalizes it to, the one resolve takes as its key, and the
\* key under which setCache stores the entry and getCached finds it
C21_NormalizationConsistent ==
  \A r \in Requests :
    (Validated(r) /\ IsString(req[r].input)) =>
      LET x == req[r].input
          v == req[r].reply[1].body
      IN  /\ NormalizeSku(NormalizeSku(x)) = NormalizeSku(x)
          /\ Trim(ToUpperCase(Trim(ToUpperCase(x)))) = Trim(ToUpperCase(x))
          /\ v.valid =>
               /\ NormalizeSku(v.normalized) = v.normalized
               /\ v.normalized = NormalizeSku(x)
               /\ classifySku(v.normalized).normalized = v.normalized
               /\ NormalizedSku(v.normalized, classifySku(v.normalized)) = v.normalized
               /\ DOMAIN KeyedBy(v.normalized) = {v.normalized}
               /\ getCached(KeyedBy(v.normalized), BFromInt(1), v.normalized).value # <<>>

\* an accepted query in lower case with whitespace inside it and around it
C21_Witness ==
  \E r \in Requests :
    /\ Validated(r)
    /\ IsString(req[r].input)
    /\ req[r].reply[1].body.valid
    /\ Len(req[r].reply[1].body.normalized) < Len(Core(req[r].input))
    /\ Len(Core(req[r].input)) < Len(req[r].input)
    /\ req[r].reply[1].body.normalized # StripWhite(req[r].input)

\* C22: a call of resolve answered by an adapter that returns a confidence of
\* 0.50 or more has written its result to the cache, and one that returns
\* less has not
C22_ReportedAgreesWithCaching ==
  \A r \in Requests :
    (Returned(r) /\ Truthy(Run(r).normalizedSku)
       /\ "result" \in Range(Run(r).log) /\ Response(r).success) =>
      (Response(r).confidence >= 50 <=> "setCache" \in Range(Run(r).log))

\* the lookup of request r in this step returns the entry of its key
Hits(r) ==
  /\ LooksUp(r)
  /\ req'[r].run[1].log = <<"classify", "cache">>
  /\ req'[r].run[1].response # <<>>

\* C23: the entry a call of resolve writes holds the resolved fields and the
\* confidence of the response of that call, and a later call that hits the
\* entry returns the same resolved fields and a confidence that is no lower
C23_HitNeverDegrades ==
  [][\A r \in Requests :
       /\ (Writes(r) /\ Truthy(req'[r].run[1].normalizedSku)) =>
            LET key == req'[r].run[1].normalizedSku
                res == req'[r].run[1].response[1]
            IN  /\ key \in DOMAIN cache'
                /\ ResolvedOf(cache'[key].data) = res.resolved
                /\ roundedConfidences[cache'[key].data.confidence] = res.confidence
       /\ Hits(r) =>
            LET key == req'[r].run[1].normalizedSku
                res == req'[r].run[1].response[1]
            IN  /\ res.success
                /\ res.resolved = ResolvedOf(cache[key].data)
                /\ res.confidence >= roundedConfidences[cache[key].data.confidence]]_vars

\* an entry written for a result of Sneaks was served, with its fields and a
\* higher confidence
C23_Witness ==
  \E r \in Requests :
    /\ Returned(r)
    /\ Run(r).log = <<"classify", "cache">>
    /\ Run(r).normalizedSku \in DOMAIN cache
    /\ cache[Run(r).normalizedSku].data.source = "sneaks"
    /\ Response(r).resolved = ResolvedOf(cache[Run(r).normalizedSku].data)
    /\ Response(r).confidence >
         roundedConfidences[cache[Run(r).normalizedSku].data.confidence]

\* C24: a hit leaves the entry as it was written, creation time included, and
\* a lookup later than the time to live after that time, whatever hits came
\* before, removes the entry and goes on to KicksDB as after a miss
C24_ReadsNeverExtend ==
  [][\A r \in Requests :
       /\ Hits(r) => cache' = cache
       /\ (LooksUp(r) /\ BCmp(AgeAtLookup(r), ttlMs) > 0) =>
            /\ TreatedAsAbsent(r)
            /\ req'[r].run[1].normalizedSku \notin DOMAIN cache'
            /\ \A k \in DOMAIN cache' : k \in DOMAIN cache /\ cache'[k] = cache[k]]_vars

\* an entry written and served at time 0 was removed by the lookup of another
\* request past its time to live, and that request is waiting for KicksDB
C24_Witness ==
  \E r \in Requests, a \in Requests :
    /\ r # a
    /\ Returned(a)
    /\ Run(a).log = <<"classify", "cache">>
    /\ Run(a).startTime = BFromInt(0)
    /\ HasRun(r)
    /\ Run(r).normalizedSku = Run(a).normalizedSku
    /\ Run(r).log = <<"classify", "cache", "kicksdb">>
    /\ Run(r).pc = "kicksdb"
    /\ BCmp(Run(r).startTime, ttlMs) > 0
    /\ Run(r).normalizedSku \notin DOMAIN cache

(***************************************************************************)
(* Progress: the pipeline when every external call completes.  The KicksDB *)
(* request and the Sneaks callbacks are the only steps resolve waits for;  *)
(* each of them eventually happens.                                        *)
(***************************************************************************)
ExternalCallsComplete ==
  /\ \A r \in Pipeline.slots : WF_vars(KicksDbSettles(r, Pipeline))
  /\ \A r \in Pipeline.slots : WF_vars(SneaksSettles(r, Pipeline))

SpecLive == Init /\ [][Next]_vars /\ ExternalCallsComplete

\* C25: a call of resolve that waits for an adapter eventually comes to an
\* end, the promise it waits for being settled; the claim asks for more, that
\* it ends with a response
C25_EveryCallEnds ==
  \A r \in Requests :
    (req[r].pc \in {"kicksdb", "sneaks"}) ~> (req[r].pc = "done")

====
